---- MODULE Spec2Model ----
(***************************************************************************)
(* Model of add-function-return-types: the per-file annotation engine     *)
(* (processFile) and the conditional save that follows the traversal.     *)
(*                                                                         *)
(* A source file is a sequence of syntax nodes in the order               *)
(* forEachDescendant visits them.  A node carries the syntactic facts the *)
(* engine reads (kind, name, parent, body, parameters, type parameters)   *)
(* and the answer of the type checker for the node without an annotation  *)
(* (inferred).  The only thing the engine changes in a node is its        *)
(* return-type annotation, kept per node in tree (in memory) and disk     *)
(* (on disk).  The empty string is "no annotation": setReturnType('')     *)
(* removes the annotation.                                                *)
(*                                                                         *)
(* The run over all files (addFunctionReturnTypes) is a second state       *)
(* machine over the same variables: one task per file, started by p-limit  *)
(* or by the for-of loop, on the single thread of the event loop.  There a *)
(* file is reduced to the way processFile ends on it.                      *)
(*                                                                         *)
(* Three more state machines share the variables: main, from the command  *)
(* line to its call of addFunctionReturnTypes, and the two utility         *)
(* functions getDependencies and findRepoRoot, each with the file system   *)
(* reduced to what the function asks of it.                                *)
(***************************************************************************)
EXTENDS Integers, Sequences, FiniteSets, TLC

VARIABLES
    options,    \* the Options record of the run (read-only)
    input,      \* the nodes of the file (by name), in traversal order
    before,     \* annotation of each node on disk when the current run started
    tree,       \* annotation of each node in the in-memory SourceFile
    disk,       \* annotation of each node in the file on disk
    outcomes,   \* for each node, the place where the callback left it
    modified,   \* the local flag "modified" of processFile
    pc,         \* "ready" | "saving" | "done"
    message,    \* the status string processFile returned ("" before it returns)
    writes,     \* number of sourceFile.save() calls completed in the current run
    run,        \* 1 for the first run over the file, 2 for the run over its output
    enclosing,  \* for each node, the position of the node it is nested in (0: none)
    errors,     \* positions of the nodes console.error reported in the current run
    \* addFunctionReturnTypes: the run over the files the file lister found
    allFiles,         \* for each file, how processFile ends on it
    scheduler,        \* "pLimit" (Promise.all over limit(...)) | "forOf" (loop)
    concurrencyLimit, \* options.concurrencyLimit
    task,             \* for each file, the position of its task
    thread,           \* the file whose task is running synchronous code (0: none)
    processedFiles,   \* the counter processedFiles
    info,             \* the counters of the status lines logged so far
    reported,         \* the files logged by console.error, in order
    exitCode,         \* NotExited, or the exit status of the process
    saved,            \* the files whose sourceFile.save() completed
    passes,           \* for each file, the traversals started on its tree
    \* main: the command line
    argv,       \* process.argv after the node and script names, as tokens
    calls,      \* the Options records addFunctionReturnTypes was called with
    \* getDependencies and findRepoRoot
    utilPc,            \* "idle" | "reading" | "called" | "searching" | "returned"
    packageJsonPaths,  \* for each path given, what the file system holds there
    manifest,          \* number of paths the for-of loop has gone through
    dependencies,      \* the Set dependencies, in insertion order
    warnings,          \* the paths console.warn named, in order
    finalDeps,         \* the array getDependencies returned
    startPath,         \* the argument of findRepoRoot
    cwd,               \* process.cwd(), against which path.resolve resolves
    gitEntries,        \* the directories that hold an entry named .git
    currentPath,       \* the argument of the current searchForGitFileRecursive
    rootPath           \* the path findRepoRoot returned

fileVars == <<options, input, before, tree, disk, outcomes, modified, pc,
              message, writes, run, enclosing, errors>>

runVars == <<allFiles, scheduler, concurrencyLimit, task, thread,
             processedFiles, info, reported, exitCode, saved, passes>>

toolVars == <<argv, calls>>

utilVars == <<utilPc, packageJsonPaths, manifest, dependencies, warnings,
              finalDeps, startPath, cwd, gitEntries, currentPath, rootPath>>

vars == <<fileVars, runVars, toolVars, utilVars>>

----------------------------------------------------------------------------
(* Bounds *)

MaxNodes == 2       \* nodes per file
MaxFlags == 1       \* ignore options switched on at once
MaxRuns == 2        \* runs of the tool over the same file
MaxFiles == 3       \* files the file lister returns
MaxLimit == 2       \* largest concurrency limit given on the command line
MaxNested == 3      \* nodes of a file with functions nested in functions
MaxChainFlags == 3  \* option-gated filters switched on at once
MaxArgs == 3        \* arguments on the command line
MaxManifests == 2   \* package.json paths given to getDependencies
MaxDepth == 2       \* segments of the start path of findRepoRoot

----------------------------------------------------------------------------
(* Text helpers: String.prototype.includes *)

Includes(s, sub) ==
    \E i \in 1..(Len(s) - Len(sub) + 1) : SubSeq(s, i, i + Len(sub) - 1) = sub

NoType == ""

----------------------------------------------------------------------------
(* Options *)

IgnoreNames ==
    { "ignoreConciseArrowFunctionExpressionsStartingWithVoid",
      "ignoreExpressions", "ignoreFunctionsWithoutTypeParameters",
      "ignoreHigherOrderFunctions", "ignoreIIFEs",
      "ignoreTypedFunctionExpressions", "ignoreFunctions",
      "ignoreAnonymousObjects", "ignoreAny", "ignoreUnknown",
      "ignoreAnonymousFunctions" }

IgnoredName == "shouldBeIgnored"

\* The Options record in which exactly the options of S are switched on; the
\* list option ignoreFunctions is on when it holds a name.
OptionsOf(S) ==
    [ ignoreConciseArrowFunctionExpressionsStartingWithVoid |->
          "ignoreConciseArrowFunctionExpressionsStartingWithVoid" \in S,
      ignoreExpressions |-> "ignoreExpressions" \in S,
      ignoreFunctionsWithoutTypeParameters |->
          "ignoreFunctionsWithoutTypeParameters" \in S,
      ignoreHigherOrderFunctions |-> "ignoreHigherOrderFunctions" \in S,
      ignoreIIFEs |-> "ignoreIIFEs" \in S,
      ignoreTypedFunctionExpressions |-> "ignoreTypedFunctionExpressions" \in S,
      ignoreFunctions |->
          IF "ignoreFunctions" \in S THEN {IgnoredName} ELSE {},
      overwrite |-> "overwrite" \in S,
      ignoreAnonymousObjects |-> "ignoreAnonymousObjects" \in S,
      ignoreAny |-> "ignoreAny" \in S,
      ignoreUnknown |-> "ignoreUnknown" \in S,
      ignoreAnonymousFunctions |-> "ignoreAnonymousFunctions" \in S ]

defaultOptions == OptionsOf({})

\* Every choice of overwrite with at most MaxChainFlags of the options
\* that gate a filter of the chain.
ChainOptionSets ==
    { OptionsOf(S \cup W) :
        S \in { T \in SUBSET (IgnoreNames \ {"ignoreAnonymousObjects", "ignoreAny",
                                              "ignoreUnknown"}) :
                   Cardinality(T) <= MaxChainFlags },
        W \in { {}, {"overwrite"} } }

\* Every choice of overwrite with at most MaxFlags of the ignore options.
OptionSets ==
    { OptionsOf(S \cup W) :
        S \in { T \in SUBSET IgnoreNames : Cardinality(T) <= MaxFlags },
        W \in { {}, {"overwrite"} } }

----------------------------------------------------------------------------
(* Syntax nodes *)

FunctionKinds ==
    { "FunctionDeclaration", "FunctionExpression", "ArrowFunction",
      "MethodDeclaration" }

NoExpression == [kind |-> "none", text |-> ""]
Identifier(t) == [kind |-> "Identifier", text |-> t]
OtherExpression == [kind |-> "Expression", text |-> ""]
FunctionExpr == [kind |-> "FunctionExpression", text |-> ""]

\* A statement: its kind, the expression of a return statement, and the
\* expressions of the return statements nested below it, in document order.
ReturnStatement(e, nested) ==
    [kind |-> "ReturnStatement", expression |-> e, returns |-> nested]
OtherStatement(nested) ==
    [kind |-> "Statement", expression |-> NoExpression, returns |-> nested]

NoBody == [kind |-> "none", text |-> "", statements |-> <<>>]
Block(stmts) == [kind |-> "Block", text |-> "", statements |-> stmts]
ConciseBody(e) == [kind |-> e.kind, text |-> e.text, statements |-> <<>>]

Parameter(n, t) == [name |-> n, typeNode |-> t]

\* The type checker's answer for a node: typeText is type.getText(node, flags),
\* text is type.getText() without an enclosing node.
Type(t) == [typeText |-> t, text |-> t]

----------------------------------------------------------------------------
(* processFile: the callback of forEachDescendant, one node at a time *)

\* Node.isFunctionDeclaration || isFunctionExpression || isArrowFunction ||
\* isMethodDeclaration
IsFunctionLike(n) == n.kind \in FunctionKinds

IsConstructorDeclaration(n) == n.kind = "Constructor"

\* The return-type check with the negation of overwrite lost.
KeepsExistingReturnTypeOnOverwrite(ann, o) == o.overwrite /\ ann # NoType

\* !options.overwrite && node.getReturnTypeNode()
KeepsExistingReturnType(ann, o) == ~o.overwrite /\ ann # NoType

\* The name the ignore list is matched against: only method and function
\* declarations have one here.
DeclaredName(n) ==
    IF n.kind \in {"MethodDeclaration", "FunctionDeclaration"} THEN n.name ELSE ""

\* A name check that also looks at the name of a function expression and
\* of the variable a function is bound to.
IgnoredByAnyName(n, o) ==
    n.name \in o.ignoreFunctions \/ n.parentName \in o.ignoreFunctions

IgnoredByName(n, o) ==
    DeclaredName(n) # "" /\ DeclaredName(n) \in o.ignoreFunctions

IsExpressionForm(n) == n.kind \in {"FunctionExpression", "ArrowFunction"}

IgnoredAsExpression(n, o) == o.ignoreExpressions /\ IsExpressionForm(n)

IgnoredAsTypedExpression(n, o) ==
    /\ o.ignoreTypedFunctionExpressions
    /\ IsExpressionForm(n)
    /\ n.parentKind = "VariableDeclaration"
    /\ n.parentTypeNode

IgnoredWithoutTypeParameters(n, o) ==
    o.ignoreFunctionsWithoutTypeParameters /\ n.typeParameters = 0

\* The ignoreHigherOrderFunctions block: every "return" in it leaves the
\* callback, the ones that test the shape of the body included.
IgnoredAsHigherOrder(n, o) ==
    /\ o.ignoreHigherOrderFunctions
    /\ \/ n.body.kind # "Block"
       \/ Len(n.body.statements) # 1
       \/ n.body.statements[1].kind # "ReturnStatement"
       \/ n.body.statements[1].expression.kind
              \in {"FunctionExpression", "ArrowFunction"}

IgnoredAsVoidArrow(n, o) ==
    /\ o.ignoreConciseArrowFunctionExpressionsStartingWithVoid
    /\ n.kind = "ArrowFunction"
    /\ n.body.kind = "VoidExpression"

\* An IIFE check that takes every function below a call or a parenthesis.
IgnoredAsCallOperand(n, o) ==
    /\ o.ignoreIIFEs
    /\ n.parentKind \in {"CallExpression", "ParenthesizedExpression"}

IgnoredAsIIFE(n, o) ==
    /\ o.ignoreIIFEs
    /\ IF n.parentKind = "ParenthesizedExpression"
         THEN n.grandParentCallsParent
         ELSE n.parentKind = "CallExpression" /\ n.parentCallsNode

\* An anonymous check that takes every expression without a name of its own.
IgnoredAsUnnamed(n, o) ==
    o.ignoreAnonymousFunctions /\ IsExpressionForm(n) /\ n.name = ""

IgnoredAsAnonymous(n, o) ==
    /\ o.ignoreAnonymousFunctions
    /\ \/ n.kind = "FunctionExpression" /\ n.name = ""
       \/ /\ n.kind = "ArrowFunction"
          /\ (n.parentKind # "VariableDeclaration" \/ n.parentName = "")
          /\ n.parentKind # "PropertyDeclaration"
          /\ n.parentKind # "PropertyAssignment"
          /\ ~(n.parentKind = "BinaryExpression" /\ n.parentOperator = "=")

\* if (options.overwrite) node.setReturnType('')
ResetReturnType(ann, o) == IF o.overwrite THEN NoType ELSE ann

\* body.getDescendantsOfKind(SyntaxKind.ReturnStatement): the expressions of
\* all return statements below the block, nested functions included.
RECURSIVE ReturnStatementsOf(_)
ReturnStatementsOf(stmts) ==
    IF stmts = <<>> THEN <<>>
    ELSE LET st == Head(stmts)
         IN  (IF st.kind = "ReturnStatement" THEN <<st.expression>> ELSE <<>>)
                 \o st.returns \o ReturnStatementsOf(Tail(stmts))

\* The expression the passthrough looks at (kind "none" when there is none).
ReturnExpr(n) ==
    IF n.body.kind = "none" THEN NoExpression
    ELSE IF n.body.kind = "Block"
         THEN LET rs == ReturnStatementsOf(n.body.statements)
              IN  IF Len(rs) = 1 THEN rs[1] ELSE NoExpression
         ELSE [kind |-> n.body.kind, text |-> n.body.text]

\* node.getParameters().find(p => p.getName() === returnExpr.getText())
FindParameter(n, text) ==
    LET hits == { i \in 1..Len(n.parameters) : n.parameters[i].name = text }
    IN  IF hits = {} THEN Parameter("", NoType)
        ELSE n.parameters[CHOOSE i \in hits : \A j \in hits : i <= j]

\* The callback without the shortcut: every node goes to the type checker.
ParamTypeTextUnused(n) == NoType

\* The declared type text of the returned parameter, NoType when the
\* shortcut does not apply.
ParamTypeText(n) ==
    LET e == ReturnExpr(n)
    IN  IF e.kind = "Identifier" THEN FindParameter(n, e.text).typeNode
        ELSE NoType

IgnoredAnonymousObject(type, o) ==
    o.ignoreAnonymousObjects /\ Includes(type.typeText, "{")

IgnoredAny(type, o) == o.ignoreAny /\ Includes(type.text, "any")

IgnoredUnknown(type, o) == o.ignoreUnknown /\ Includes(type.text, "unknown")

Left(ann, where) == [returnType |-> ann, modified |-> FALSE, outcome |-> where]
Annotated(text, where) ==
    [returnType |-> text, modified |-> TRUE, outcome |-> where]

\* A call inside the try block threw: the callback goes to its catch block
\* with the annotation as the calls before the throw left it.
Thrown(ann) == [returnType |-> ann, modified |-> FALSE, outcome |-> "error"]

\* node.setReturnType(text) followed by modified = true, for a node on which
\* the call may throw.
SetReturnType(n, reset, text, where) ==
    IF n.throws = "setReturnType" THEN Thrown(reset) ELSE Annotated(text, where)

\* The callback after the filters: the reset of the annotation under
\* overwrite, the parameter shortcut, and the resolution by the checker.
ResolveReturnType(n, ann, o) ==
    LET reset == ResetReturnType(ann, o)
    IN  IF ParamTypeText(n) # NoType
        THEN SetReturnType(n, reset, ParamTypeText(n), "parameter")
        ELSE IF n.throws = "getReturnType" THEN Thrown(reset)
        ELSE IF IgnoredAnonymousObject(n.inferred, o)
             THEN Left(reset, "ignoreAnonymousObjects")
        ELSE IF IgnoredAny(n.inferred, o) THEN Left(reset, "ignoreAny")
        ELSE IF IgnoredUnknown(n.inferred, o)
             THEN Left(reset, "ignoreUnknown")
        ELSE SetReturnType(n, reset, n.inferred.typeText, "inferred")

\* The option-gated filters in the order of the code, by the option that
\* gates them.
ChainOrder ==
    << "ignoreFunctions", "ignoreExpressions", "ignoreTypedFunctionExpressions",
       "ignoreFunctionsWithoutTypeParameters", "ignoreHigherOrderFunctions",
       "ignoreConciseArrowFunctionExpressionsStartingWithVoid", "ignoreIIFEs",
       "ignoreAnonymousFunctions" >>

\* The option of a filter is switched on.
Gate(name, o) ==
    IF name = "ignoreFunctions" THEN o.ignoreFunctions # {} ELSE o[name]

\* The filter gated by the option name returns from the callback.
Fires(name, n, o) ==
    CASE name = "ignoreFunctions" -> IgnoredByName(n, o)
      [] name = "ignoreExpressions" -> IgnoredAsExpression(n, o)
      [] name = "ignoreTypedFunctionExpressions" -> IgnoredAsTypedExpression(n, o)
      [] name = "ignoreFunctionsWithoutTypeParameters" ->
             IgnoredWithoutTypeParameters(n, o)
      [] name = "ignoreHigherOrderFunctions" -> IgnoredAsHigherOrder(n, o)
      [] name = "ignoreConciseArrowFunctionExpressionsStartingWithVoid" ->
             IgnoredAsVoidArrow(n, o)
      [] name = "ignoreIIFEs" -> IgnoredAsIIFE(n, o)
      [] name = "ignoreAnonymousFunctions" -> IgnoredAsAnonymous(n, o)

\* The filters written as one if / else-if chain over their options: only
\* the first filter whose option is on is evaluated.
VisitFunctionElseIf(n, ann, o) ==
    IF KeepsExistingReturnType(ann, o) THEN Left(ann, "hasReturnType")
    ELSE LET on == { k \in 1..Len(ChainOrder) : Gate(ChainOrder[k], o) }
             first == CHOOSE k \in on : \A j \in on : k <= j
         IN  IF on # {} /\ Fires(ChainOrder[first], n, o)
             THEN Left(ann, ChainOrder[first])
             ELSE ResolveReturnType(n, ann, o)

\* The callback with the annotation cleared before the filters.
VisitFunctionResetFirst(n, ann, o) ==
    IF KeepsExistingReturnType(ann, o) THEN Left(ann, "hasReturnType")
    ELSE LET firing == { k \in 1..Len(ChainOrder) : Fires(ChainOrder[k], n, o) }
             first == CHOOSE k \in firing : \A j \in firing : k <= j
         IN  IF firing # {}
             THEN Left(ResetReturnType(ann, o), ChainOrder[first])
             ELSE ResolveReturnType(n, ann, o)

\* The callback from the return-type check on, for a function-like node n
\* whose annotation in the tree is ann: the new annotation, whether
\* "modified" was set, and where the callback returned.
VisitFunction(n, ann, o) ==
    IF KeepsExistingReturnType(ann, o) THEN Left(ann, "hasReturnType")
    ELSE IF IgnoredByName(n, o) THEN Left(ann, "ignoreFunctions")
    ELSE IF IgnoredAsExpression(n, o) THEN Left(ann, "ignoreExpressions")
    ELSE IF IgnoredAsTypedExpression(n, o)
         THEN Left(ann, "ignoreTypedFunctionExpressions")
    ELSE IF IgnoredWithoutTypeParameters(n, o)
         THEN Left(ann, "ignoreFunctionsWithoutTypeParameters")
    ELSE IF IgnoredAsHigherOrder(n, o)
         THEN Left(ann, "ignoreHigherOrderFunctions")
    ELSE IF IgnoredAsVoidArrow(n, o)
         THEN Left(ann, "ignoreConciseArrowFunctionExpressionsStartingWithVoid")
    ELSE IF IgnoredAsIIFE(n, o) THEN Left(ann, "ignoreIIFEs")
    ELSE IF IgnoredAsAnonymous(n, o) THEN Left(ann, "ignoreAnonymousFunctions")
    ELSE ResolveReturnType(n, ann, o)

\* The kind check without the two early returns for other kinds.
VisitNodeOfAnyKind(n, ann, o) ==
    IF n.kind = "VariableStatement" THEN Left(ann, "notFunction")
    ELSE VisitFunction(n, ann, o)

\* The callback of forEachDescendant for node n.
VisitNode(n, ann, o) ==
    IF ~IsFunctionLike(n) THEN Left(ann, "notFunction")
    ELSE IF IsConstructorDeclaration(n) THEN Left(ann, "constructor")
    ELSE VisitFunction(n, ann, o)

\* Outcomes in which the type checker was asked for the node's return type.
Resolved == {"ignoreAnonymousObjects", "ignoreAny", "ignoreUnknown", "inferred"}

\* Outcomes in which an option-gated filter excluded the node.
FilterExclusions ==
    { "ignoreFunctions", "ignoreExpressions", "ignoreTypedFunctionExpressions",
      "ignoreFunctionsWithoutTypeParameters", "ignoreHigherOrderFunctions",
      "ignoreConciseArrowFunctionExpressionsStartingWithVoid", "ignoreIIFEs",
      "ignoreAnonymousFunctions" }

ShapeExclusions == {"ignoreAnonymousObjects", "ignoreAny", "ignoreUnknown"}

----------------------------------------------------------------------------
(* Input files: nodes taken from the sources the test suite feeds the tool *)

TopLevel(kind, name, ann, tparams, params, body, inferred) ==
    [ kind |-> kind, name |-> name, returnTypeNode |-> ann,
      typeParameters |-> tparams, parameters |-> params, body |-> body,
      inferred |-> inferred, throws |-> "", modifiers |-> {},
      returnsLocal |-> FALSE,
      parentKind |-> "SourceFile", parentTypeNode |-> FALSE, parentName |-> "",
      parentOperator |-> "", parentCallsNode |-> FALSE,
      grandParentCallsParent |-> FALSE ]

FunctionDeclaration(name, ann, params, body, inferred) ==
    TopLevel("FunctionDeclaration", name, ann, 0, params, body, inferred)

ReturnsValue == Block(<<ReturnStatement(OtherExpression, <<>>)>>)

\* function greet(name: string) { return 'Hello, ' + name; }
greet ==
    FunctionDeclaration("greet", NoType, <<Parameter("name", "string")>>,
                        ReturnsValue, Type("string"))

\* function greet(name: string): number { return 'Hello, ' + name; }
greetTyped == [greet EXCEPT !.returnTypeNode = "number"]

\* class Person { constructor(public name: string) {} }
personConstructor ==
    TopLevel("Constructor", "", NoType, 0, <<Parameter("name", "string")>>,
             Block(<<>>), Type("Person"))

\* function identity<T>(arg: T) { return arg; }
identity ==
    TopLevel("FunctionDeclaration", "identity", NoType, 1,
             <<Parameter("arg", "T")>>,
             Block(<<ReturnStatement(Identifier("arg"), <<>>)>>), Type("T"))

\* function returnAny() { return JSON.parse('{"foo": "bar"}'); }
returnAny ==
    FunctionDeclaration("returnAny", NoType, <<>>, ReturnsValue, Type("any"))

\* function parseData(data: string): string { return JSON.parse(data); }
parseDataTyped ==
    FunctionDeclaration("parseData", "string", <<Parameter("data", "string")>>,
                        ReturnsValue, Type("any"))

\* function echo(value: any) { return value; }
echoAny ==
    FunctionDeclaration("echo", NoType, <<Parameter("value", "any")>>,
                        Block(<<ReturnStatement(Identifier("value"), <<>>)>>),
                        Type("any"))

\* function pick(value: { foo: string }) { return value; }
pickObject ==
    FunctionDeclaration("pick", NoType,
                        <<Parameter("value", "{ foo: string }")>>,
                        Block(<<ReturnStatement(Identifier("value"), <<>>)>>),
                        Type("{ foo: string; }"))

\* async function getPromiseObject() { return Promise.resolve({ ... }); }
getPromiseObject ==
    FunctionDeclaration("getPromiseObject", NoType, <<>>, ReturnsValue,
                        Type("Promise<{ foo: string; baz: number; }>"))

\* function getRegularObject() { return { foo: 'bar' }; }
getRegularObject ==
    FunctionDeclaration("getRegularObject", NoType, <<>>, ReturnsValue,
                        Type("{ foo: string; }"))

\* function getArrayAnonymous() { return [{ foo: 'bar' }, { foo: 'baz' }]; }
getArrayAnonymous ==
    FunctionDeclaration("getArrayAnonymous", NoType, <<>>, ReturnsValue,
                        Type("{ foo: string; }[]"))

\* function getRecordAnonymous() { return ... as Record<string, { ... }>; }
getRecordAnonymous ==
    FunctionDeclaration("getRecordAnonymous", NoType, <<>>, ReturnsValue,
                        Type("Record<string, { foo: string; }>"))

\* function getCompany() { return company; }  with  const company: Company
getCompany ==
    FunctionDeclaration("getCompany", NoType, <<>>, ReturnsValue,
                        Type("Company"))

\* function getUnknown() { return value as unknown; }
getUnknown ==
    FunctionDeclaration("getUnknown", NoType, <<>>, ReturnsValue,
                        Type("unknown"))

\* function higherOrder() { return function() { return 42; } }
higherOrder ==
    FunctionDeclaration("higherOrder", NoType, <<>>,
        Block(<<ReturnStatement(FunctionExpr, <<OtherExpression>>)>>),
        Type("() => number"))

\* const arrowNormal = () => 42;
arrowNormal ==
    [ TopLevel("ArrowFunction", "", NoType, 0, <<>>,
               ConciseBody(OtherExpression), Type("number"))
          EXCEPT !.parentKind = "VariableDeclaration",
                 !.parentName = "arrowNormal" ]

\* const same = (value: Company) => value;
arrowSame ==
    [ TopLevel("ArrowFunction", "", NoType, 0, <<Parameter("value", "Company")>>,
               ConciseBody(Identifier("value")), Type("Company"))
          EXCEPT !.parentKind = "VariableDeclaration", !.parentName = "same" ]

\* function logMessage(message: string) { console.log(message); }
logMessage ==
    FunctionDeclaration("logMessage", NoType,
                        <<Parameter("message", "string")>>,
                        Block(<<OtherStatement(<<>>)>>), Type("void"))

\* function toNumber(value: string | number) {
\*   if (typeof value === 'string') { return parseInt(value, 10); }
\*   return value; }
toNumber ==
    FunctionDeclaration("toNumber", NoType,
        <<Parameter("value", "string | number")>>,
        Block(<<OtherStatement(<<OtherExpression>>),
                ReturnStatement(Identifier("value"), <<>>)>>),
        Type("number"))

\* function combine(a: string, b: string): string;
combineSignature ==
    FunctionDeclaration("combine", "string",
        <<Parameter("a", "string"), Parameter("b", "string")>>, NoBody,
        Type("any"))

\* function combine(a: string, b: string);
combineBareSignature == [combineSignature EXCEPT !.returnTypeNode = NoType]

\* A descendant that is not a function: const company: Company = ...
variableStatement ==
    TopLevel("VariableStatement", "", NoType, 0, <<>>, NoBody, Type("Company"))

\* Nodes on which a call of the callback throws.  greet with a return type
\* the checker fails to resolve:
brokenInference == [greet EXCEPT !.throws = "getReturnType"]

\* greetTyped with a return type the checker fails to resolve.
brokenTyped == [greetTyped EXCEPT !.throws = "getReturnType"]

\* greet with a manipulation that fails.
brokenAnnotation == [greet EXCEPT !.throws = "setReturnType"]

\* identity with a manipulation that fails.
brokenPassthrough == [identity EXCEPT !.throws = "setReturnType"]

\* Nodes for the filters on names, call positions and anonymous functions.
\* function shouldBeIgnored() { return 1; }
shouldBeIgnored ==
    FunctionDeclaration(IgnoredName, NoType, <<>>, ReturnsValue, Type("number"))

\* function shouldBeIgnored(): number { return 1; }
shouldBeIgnoredTyped == [shouldBeIgnored EXCEPT !.returnTypeNode = "number"]

\* class C { shouldBeIgnored() { return 1; } }
ignoredMethod ==
    [ TopLevel("MethodDeclaration", IgnoredName, NoType, 0, <<>>, ReturnsValue,
               Type("number"))
          EXCEPT !.parentKind = "ClassDeclaration" ]

\* const obj = { greet(name: string) { return 'Hello, ' + name; } }
objectMethod ==
    [ TopLevel("MethodDeclaration", "greet", NoType, 0,
               <<Parameter("name", "string")>>, ReturnsValue, Type("string"))
          EXCEPT !.parentKind = "ObjectLiteralExpression" ]

\* A function expression or arrow function below the given parent.
Expression(kind, name, parentKind, parentName) ==
    [ TopLevel(kind, name, NoType, 0, <<>>, ReturnsValue, Type("number"))
          EXCEPT !.parentKind = parentKind, !.parentName = parentName ]

\* const shouldBeIgnored = () => { return 1; }
arrowNamedIgnored ==
    Expression("ArrowFunction", "", "VariableDeclaration", IgnoredName)

\* const callback = function shouldBeIgnored() { return 1; }
expressionNamedIgnored ==
    Expression("FunctionExpression", IgnoredName, "VariableDeclaration", "callback")

\* const myFunction = function() { return 42; }
myFunction ==
    Expression("FunctionExpression", "", "VariableDeclaration", "myFunction")

\* const typedFunction: () => number = function() { return 42; }
typedFunction ==
    [ Expression("FunctionExpression", "", "VariableDeclaration", "typedFunction")
          EXCEPT !.parentTypeNode = TRUE ]

\* const arrowVoid = () => void doSomething();
arrowVoid ==
    [ Expression("ArrowFunction", "", "VariableDeclaration", "arrowVoid")
          EXCEPT !.body = ConciseBody([kind |-> "VoidExpression", text |-> ""]),
                 !.inferred = Type("undefined") ]

\* (function() { return 42; })();
iifeParenthesized ==
    [ Expression("FunctionExpression", "", "ParenthesizedExpression", "")
          EXCEPT !.grandParentCallsParent = TRUE ]

\* (() => { return 42; })();
iifeArrow ==
    [ Expression("ArrowFunction", "", "ParenthesizedExpression", "")
          EXCEPT !.grandParentCallsParent = TRUE ]

\* !function() { return 42; }();
iifeDirect ==
    [ Expression("FunctionExpression", "", "CallExpression", "")
          EXCEPT !.parentCallsNode = TRUE ]

\* ((function() { return 42; }))();  the call is two parentheses away
iifeDoubleParenthesized ==
    Expression("FunctionExpression", "", "ParenthesizedExpression", "")

\* items.map(() => { return 42; })
callbackArgument == Expression("ArrowFunction", "", "CallExpression", "")

\* run((function named() { return 42; }))
parenthesizedArgument ==
    Expression("FunctionExpression", "named", "ParenthesizedExpression", "")

\* (() => { return 'string'; })
parenthesizedArrow ==
    Expression("ArrowFunction", "", "ParenthesizedExpression", "")

\* class Class { arrowClassProp = () => { return 456; } }
arrowClassProp ==
    Expression("ArrowFunction", "", "PropertyDeclaration", "arrowClassProp")

\* const object = { arrowObjectProp: () => { return 456; } }
arrowObjectProp ==
    Expression("ArrowFunction", "", "PropertyAssignment", "arrowObjectProp")

\* variable = () => { return 456; }
assignedArrow ==
    [ Expression("ArrowFunction", "", "BinaryExpression", "")
          EXCEPT !.parentOperator = "=" ]

\* variable ??= () => { return 456; }
compoundAssignedArrow ==
    [ Expression("ArrowFunction", "", "BinaryExpression", "")
          EXCEPT !.parentOperator = "??=" ]

\* Functions with functions nested in them.
\* function outer() { function inner() { return 42; } return 'x'; }
outer ==
    FunctionDeclaration("outer", NoType, <<>>,
        Block(<<OtherStatement(<<OtherExpression>>),
                ReturnStatement(OtherExpression, <<>>)>>),
        Type("string"))

\* The same with a declared return type.
outerTyped == [outer EXCEPT !.name = "outerTyped", !.returnTypeNode = "string"]

\* outer, declared in the body of another function.
nestedOuter == [outer EXCEPT !.name = "nestedOuter", !.parentKind = "Block"]

\* greet and greetTyped, declared in the body of another function.
nestedGreet == [greet EXCEPT !.parentKind = "Block"]
nestedTyped == [greetTyped EXCEPT !.parentKind = "Block"]

\* The function higherOrder returns: function() { return 42; }
returnedFunction ==
    [ TopLevel("FunctionExpression", "", NoType, 0, <<>>, ReturnsValue,
               Type("number"))
          EXCEPT !.parentKind = "ReturnStatement" ]

\* A namespace and the functions declared in its block.
\* namespace Utils { ... }
Utils ==
    TopLevel("ModuleDeclaration", "Utils", NoType, 0, <<>>, NoBody,
             Type("typeof Utils"))

\* namespace Utils { export function extract() { return 'string'; } }
extract ==
    [ FunctionDeclaration("extract", NoType, <<>>, ReturnsValue, Type("string"))
          EXCEPT !.parentKind = "ModuleBlock" ]

\* greetTyped, shouldBeIgnored and returnAny, declared in a namespace.
namespacedTyped == [greetTyped EXCEPT !.parentKind = "ModuleBlock"]
namespacedIgnored == [shouldBeIgnored EXCEPT !.parentKind = "ModuleBlock"]
namespacedAny == [returnAny EXCEPT !.parentKind = "ModuleBlock"]

\* function higherOrder(callback: () => number): number | null {
\*   return callback(); }
higherOrderTyped ==
    FunctionDeclaration("higherOrder", "number | null",
                        <<Parameter("callback", "() => number")>>, ReturnsValue,
                        Type("number"))

\* Functions whose return statement names a parameter without being the
\* whole body.
\* function register(handler: string) {
\*   queue.push(function () { return handler; }); }
registerNested ==
    FunctionDeclaration("register", NoType, <<Parameter("handler", "string")>>,
                        Block(<<OtherStatement(<<Identifier("handler")>>)>>),
                        Type("void"))

\* function logAndReturn(value: number) { console.log(value); return value; }
logAndReturn ==
    FunctionDeclaration("logAndReturn", NoType, <<Parameter("value", "number")>>,
                        Block(<<OtherStatement(<<>>),
                                ReturnStatement(Identifier("value"), <<>>)>>),
                        Type("number"))

\* function parse(value: string) {
\*   for (const value of [1, 2]) { return value; } }
\* The identifier returned is the constant of the loop, not the parameter.
parseShadowed ==
    [ FunctionDeclaration("parse", NoType, <<Parameter("value", "string")>>,
                          Block(<<OtherStatement(<<Identifier("value")>>)>>),
                          Type("number | undefined"))
          EXCEPT !.returnsLocal = TRUE ]

\* async function load(value: string) { return value; }
asyncLoad ==
    [ FunctionDeclaration("load", NoType, <<Parameter("value", "string")>>,
                          Block(<<ReturnStatement(Identifier("value"), <<>>)>>),
                          Type("Promise<string>"))
          EXCEPT !.modifiers = {"async"} ]

\* function* count(limit: number) { return limit; }
generatorCount ==
    [ FunctionDeclaration("count", NoType, <<Parameter("limit", "number")>>,
                          Block(<<ReturnStatement(Identifier("limit"), <<>>)>>),
                          Type("Generator<never, number, unknown>"))
          EXCEPT !.modifiers = {"generator"} ]

\* const later = async (value: Company) => value;
asyncArrow == [arrowSame EXCEPT !.parentName = "later", !.modifiers = {"async"},
                                !.inferred = Type("Promise<Company>")]

\* The nodes by the name the file refers to them with.
Catalogue ==
    [ shouldBeIgnored |-> shouldBeIgnored,
      shouldBeIgnoredTyped |-> shouldBeIgnoredTyped,
      ignoredMethod |-> ignoredMethod, objectMethod |-> objectMethod,
      arrowNamedIgnored |-> arrowNamedIgnored,
      expressionNamedIgnored |-> expressionNamedIgnored,
      myFunction |-> myFunction, typedFunction |-> typedFunction,
      arrowVoid |-> arrowVoid, iifeParenthesized |-> iifeParenthesized,
      iifeArrow |-> iifeArrow, iifeDirect |-> iifeDirect,
      iifeDoubleParenthesized |-> iifeDoubleParenthesized,
      callbackArgument |-> callbackArgument,
      parenthesizedArgument |-> parenthesizedArgument,
      parenthesizedArrow |-> parenthesizedArrow,
      arrowClassProp |-> arrowClassProp, arrowObjectProp |-> arrowObjectProp,
      assignedArrow |-> assignedArrow,
      compoundAssignedArrow |-> compoundAssignedArrow,
      Utils |-> Utils, extract |-> extract, namespacedTyped |-> namespacedTyped,
      namespacedIgnored |-> namespacedIgnored, namespacedAny |-> namespacedAny,
      higherOrderTyped |-> higherOrderTyped,
      registerNested |-> registerNested, logAndReturn |-> logAndReturn,
      parseShadowed |-> parseShadowed, asyncLoad |-> asyncLoad,
      generatorCount |-> generatorCount, asyncArrow |-> asyncArrow,
      outer |-> outer, outerTyped |-> outerTyped, nestedOuter |-> nestedOuter,
      nestedGreet |-> nestedGreet, nestedTyped |-> nestedTyped,
      returnedFunction |-> returnedFunction,
      brokenInference |-> brokenInference, brokenTyped |-> brokenTyped,
      brokenAnnotation |-> brokenAnnotation,
      brokenPassthrough |-> brokenPassthrough,
      greet |-> greet, greetTyped |-> greetTyped,
      personConstructor |-> personConstructor, identity |-> identity,
      returnAny |-> returnAny, parseDataTyped |-> parseDataTyped,
      echoAny |-> echoAny, pickObject |-> pickObject,
      getPromiseObject |-> getPromiseObject,
      getRegularObject |-> getRegularObject,
      getArrayAnonymous |-> getArrayAnonymous,
      getRecordAnonymous |-> getRecordAnonymous, getCompany |-> getCompany,
      getUnknown |-> getUnknown, higherOrder |-> higherOrder,
      arrowNormal |-> arrowNormal, arrowSame |-> arrowSame,
      logMessage |-> logMessage, toNumber |-> toNumber,
      combineSignature |-> combineSignature,
      combineBareSignature |-> combineBareSignature,
      variableStatement |-> variableStatement ]

CatalogueOrder ==
    << "greet", "greetTyped", "personConstructor", "identity", "returnAny",
       "parseDataTyped", "echoAny", "pickObject", "getPromiseObject",
       "getRegularObject", "getArrayAnonymous", "getRecordAnonymous",
       "getCompany", "getUnknown", "higherOrder", "arrowNormal", "arrowSame",
       "logMessage", "toNumber", "combineSignature", "combineBareSignature",
       "variableStatement" >>

\* The callback reads nothing but its own node, so a file is taken up to the
\* order of its nodes.
Files ==
    { [i \in 1..Len(f) |-> CatalogueOrder[f[i]]] :
        f \in UNION { { g \in [1..k -> 1..Len(CatalogueOrder)] :
                          \A i \in 1..k, j \in 1..k : i <= j => g[i] <= g[j] } :
                      k \in 0..MaxNodes } }

\* Every sequence of at most MaxNodes of the given nodes.
FilesOf(names) ==
    UNION { [1..k -> names] : k \in 0..MaxNodes }

\* Files with nodes on which the callback throws, among nodes on which it
\* does not.
ErrorFiles ==
    FilesOf({ "greet", "greetTyped", "identity", "brokenInference",
              "brokenTyped", "brokenAnnotation", "brokenPassthrough" })

\* Files of one node each for the filters: declarations, methods, and
\* function expressions and arrow functions below every kind of parent the
\* filters look at.
FilterFiles ==
    { <<name>> : name \in
        { "greet", "greetTyped", "identity", "higherOrder", "arrowNormal",
          "shouldBeIgnored", "shouldBeIgnoredTyped", "ignoredMethod",
          "objectMethod", "arrowNamedIgnored", "expressionNamedIgnored",
          "myFunction", "typedFunction", "arrowVoid", "iifeParenthesized",
          "iifeArrow", "iifeDirect", "iifeDoubleParenthesized",
          "callbackArgument", "parenthesizedArgument", "parenthesizedArrow",
          "arrowClassProp", "arrowObjectProp", "assignedArrow",
          "compoundAssignedArrow", "higherOrderTyped" } }
    \cup { <<"shouldBeIgnored", "greet", "arrowNamedIgnored", "ignoredMethod">>,
           <<"iifeParenthesized", "greet", "callbackArgument">>,
           <<"myFunction", "parenthesizedArrow", "greet", "arrowNormal",
             "arrowClassProp", "arrowObjectProp", "assignedArrow">> }

\* Files of functions that return a parameter, in and out of the reach of
\* the shortcut.
ShortcutFiles ==
    FilesOf({ "greet", "identity", "echoAny", "arrowSame", "toNumber",
              "registerNested", "logAndReturn", "parseShadowed", "asyncLoad",
              "generatorCount", "asyncArrow" })

\* Files with nested functions: the nodes in the order forEachDescendant
\* visits them (a function before the functions in its body), and for each
\* node the position of the function whose body it is in.
NestedNames ==
    { "outer", "outerTyped", "higherOrder", "nestedOuter", "nestedGreet",
      "nestedTyped", "returnedFunction" }

\* The functions whose body holds another function.
Enclosers == {"outer", "outerTyped", "higherOrder", "nestedOuter"}

RECURSIVE Ancestors(_, _)
Ancestors(enc, i) ==
    IF i = 0 \/ enc[i] = 0 THEN {} ELSE {enc[i]} \cup Ancestors(enc, enc[i])

WellNested(f, enc) ==
    \A i \in 1..Len(f) :
        /\ enc[i] = 0 <=> Catalogue[f[i]].parentKind = "SourceFile"
        /\ i > 1 /\ enc[i] # 0 => enc[i] \in {i - 1} \cup Ancestors(enc, i - 1)
        /\ enc[i] # 0 => f[enc[i]] \in Enclosers
        /\ f[i] \in Enclosers <=> \E j \in 1..Len(f) : enc[j] = i
        /\ f[i] = "returnedFunction" => f[enc[i]] = "higherOrder"
        /\ f[i] = "higherOrder" =>
              \A j \in 1..Len(f) : enc[j] = i => f[j] = "returnedFunction"

\* The ways k nodes can lie in one another: a node lies in a node that
\* comes before it, or in none.
Nestings(k) == { enc \in [1..k -> 0..(k - 1)] : \A i \in 1..k : enc[i] < i }

\* Files with namespaces: a namespace, or a function at the top level or in
\* the block of a namespace (an arrow function bound to a constant there has
\* the same parent as at the top level).
NamespaceNames ==
    { "Utils", "extract", "namespacedTyped", "namespacedIgnored",
      "namespacedAny", "arrowNormal", "greet" }

\* enc gives for each node the position of the namespace it is declared in:
\* the nodes of a namespace follow it in document order.
WellNamespaced(f, enc) ==
    \A i \in 1..Len(f) :
        /\ Catalogue[f[i]].parentKind = "ModuleBlock" => enc[i] # 0
        /\ enc[i] # 0 =>
              /\ f[enc[i]] = "Utils"
              /\ Catalogue[f[i]].parentKind # "SourceFile"
              /\ \A j \in (enc[i] + 1)..i : enc[j] = enc[i]

----------------------------------------------------------------------------
(* processFile and the runs of the tool over one file *)

\* The i-th node forEachDescendant visits.
Node(i) == Catalogue[input[i]]

Annotations(names) == [i \in 1..Len(names) |-> Catalogue[names[i]].returnTypeNode]

NotExited == -1

\* The engine driven without the command line.
NoCommandLine ==
    /\ argv = <<>>
    /\ calls = <<>>

\* getDependencies is not called.
NoManifests ==
    /\ packageJsonPaths = <<>>
    /\ manifest = 0
    /\ dependencies = <<>>
    /\ warnings = <<>>
    /\ finalDeps = <<>>

\* findRepoRoot is not called.
NoSearch ==
    /\ startPath = [absolute |-> TRUE, segments |-> <<>>]
    /\ cwd = <<>>
    /\ gitEntries = {}
    /\ currentPath = <<>>
    /\ rootPath = [absolute |-> TRUE, segments |-> <<>>]

\* Neither utility function is called.
NoUtils ==
    /\ utilPc = "idle"
    /\ NoManifests
    /\ NoSearch

\* No run of addFunctionReturnTypes over a list of files.
NoRun ==
    /\ allFiles = <<>>
    /\ scheduler = "forOf"
    /\ concurrencyLimit = 1
    /\ task = <<>>
    /\ thread = 0
    /\ processedFiles = 0
    /\ info = <<>>
    /\ reported = <<>>
    /\ exitCode = NotExited
    /\ saved = {}
    /\ passes = <<>>

\* processFile called directly on one file.
Unscheduled ==
    /\ NoCommandLine
    /\ NoUtils
    /\ NoRun

Init ==
    /\ Unscheduled
    /\ options \in OptionSets
    /\ input \in Files
    /\ before = Annotations(input)
    /\ tree = Annotations(input)
    /\ disk = Annotations(input)
    /\ outcomes = [i \in 1..Len(input) |-> ""]
    /\ modified = FALSE
    /\ pc = "ready"
    /\ message = ""
    /\ writes = 0
    /\ run = 1
    /\ enclosing = [i \in 1..Len(input) |-> 0]
    /\ errors = {}

\* The state in which processFile is called on the file input.
Loaded ==
    /\ before = Annotations(input)
    /\ tree = Annotations(input)
    /\ disk = Annotations(input)
    /\ outcomes = [i \in 1..Len(input) |-> ""]
    /\ modified = FALSE
    /\ pc = "ready"
    /\ message = ""
    /\ writes = 0
    /\ run = 1
    /\ errors = {}

\* Files with nodes on which a call of the callback throws.
InitErrors ==
    /\ Unscheduled
    /\ options \in OptionSets
    /\ input \in ErrorFiles
    /\ enclosing = [i \in 1..Len(input) |-> 0]
    /\ Loaded

\* One function under the filters of the chain.
InitFilters ==
    /\ Unscheduled
    /\ options \in OptionSets \cup ChainOptionSets
    /\ input \in FilterFiles
    /\ enclosing = [i \in 1..Len(input) |-> 0]
    /\ Loaded

\* Functions that return a parameter.
InitShortcut ==
    /\ Unscheduled
    /\ options \in OptionSets
    /\ input \in ShortcutFiles
    /\ enclosing = [i \in 1..Len(input) |-> 0]
    /\ Loaded

\* Files with functions declared or returned inside functions.
InitNested ==
    /\ Unscheduled
    /\ \E k \in 1..MaxNested :
          /\ input \in [1..k -> NestedNames]
          /\ enclosing \in Nestings(k)
    /\ WellNested(input, enclosing)
    /\ options \in OptionSets
    /\ Loaded

\* Files with functions declared in namespaces.
InitNamespaces ==
    /\ Unscheduled
    /\ \E k \in 1..MaxNested :
          /\ input \in [1..k -> NamespaceNames]
          /\ enclosing \in Nestings(k)
    /\ WellNamespaced(input, enclosing)
    /\ options \in OptionSets
    /\ Loaded

NoChangesMade == "No changes made"
ProcessedAndSaved == "Processed and saved"

\* The flag set by every callback that reaches the return-type resolution.
ModifiedAfterAnyVisit(visit) ==
    \E i \in DOMAIN visit : visit[i].modified \/ visit[i].outcome \in Resolved

\* let modified = false, set to true by every callback that annotates.
ModifiedAfter(visit) == \E i \in DOMAIN visit : visit[i].modified

\* The callback without its try/catch: the first throw leaves the callback
\* and forEachDescendant, so that no later node is visited.
EvaluatedUntilThrow(visit) ==
    { i \in DOMAIN visit : \A j \in 1..(i - 1) : visit[j].outcome # "error" }

\* A traversal that does not go into the functions it left unannotated.
EvaluatedOutsideSkipped(visit) ==
    { i \in DOMAIN visit : enclosing[i] = 0 \/ visit[enclosing[i]].modified }

\* A traversal that does not go into the block of a namespace.
EvaluatedOutsideNamespaces(visit) ==
    { i \in DOMAIN visit :
        enclosing[i] = 0 \/ Node(enclosing[i]).kind # "ModuleDeclaration" }

\* The nodes on which the callback runs: forEachDescendant calls it for every
\* descendant, the callback never asks the traversal to skip or stop, and
\* its try/catch lets no error out.
Evaluated(visit) == DOMAIN visit

\* The catch block: the nodes reported with console.error.
Reported(visit) ==
    { i \in Evaluated(visit) : visit[i].outcome = "error" }

\* processFile up to its only await: the whole traversal, then either the
\* return of "No changes made" or the call of sourceFile.save().
Traverse ==
    /\ pc = "ready"
    /\ \E all \in {[i \in 1..Len(input) |-> VisitNode(Node(i), tree[i], options)]} :
          \E visit \in {[i \in 1..Len(input) |->
                           IF i \in Evaluated(all) THEN all[i]
                           ELSE Left(tree[i], "")]} :
              /\ tree' = [i \in 1..Len(input) |-> visit[i].returnType]
              /\ outcomes' = [i \in 1..Len(input) |-> visit[i].outcome]
              /\ errors' = Reported(visit)
              /\ modified' = ModifiedAfter(visit)
              /\ pc' = IF ModifiedAfter(visit) THEN "saving" ELSE "done"
              /\ message' = IF ModifiedAfter(visit) THEN "" ELSE NoChangesMade
    /\ UNCHANGED <<options, input, before, disk, writes, run, enclosing>>
    /\ UNCHANGED <<runVars, toolVars, utilVars>>

\* await sourceFile.save() completes and processFile returns.
Save ==
    /\ pc = "saving"
    /\ disk' = tree
    /\ writes' = writes + 1
    /\ message' = ProcessedAndSaved
    /\ pc' = "done"
    /\ UNCHANGED <<options, input, before, tree, outcomes, modified, run,
                   enclosing, errors>>
    /\ UNCHANGED <<runVars, toolVars, utilVars>>

\* The tool is started again on the same path with the same options: a new
\* Project parses the file from disk.
RunAgain ==
    /\ pc = "done"
    /\ run < MaxRuns
    /\ run' = run + 1
    /\ before' = disk
    /\ tree' = disk
    /\ outcomes' = [i \in 1..Len(input) |-> ""]
    /\ modified' = FALSE
    /\ message' = ""
    /\ writes' = 0
    /\ errors' = {}
    /\ pc' = "ready"
    /\ UNCHANGED <<options, input, disk, enclosing>>
    /\ UNCHANGED <<runVars, toolVars, utilVars>>

Next == Traverse \/ Save \/ RunAgain

Spec == Init /\ [][Next]_vars

SpecErrors == InitErrors /\ [][Next]_vars

SpecNested == InitNested /\ [][Next]_vars

SpecNamespaces == InitNamespaces /\ [][Next]_vars

SpecFilters == InitFilters /\ [][Next]_vars

SpecShortcut == InitShortcut /\ [][Next]_vars

----------------------------------------------------------------------------
(* addFunctionReturnTypes: the run over all files *)

\* How processFile ends on a file: it saves it, returns "No changes made",
\* throws before the traversal (addSourceFileAtPath), or fails in save().
FileKinds == {"changed", "unchanged", "unreadable", "unwritable"}

\* commander's default for --concurrency.
DefaultConcurrency == 10

FileIds == 1..Len(allFiles)

\* The tasks p-limit counts as active: started and not settled.
Active == { f \in FileIds : task[f] \in {"traversing", "saving", "returned", "rejected"} }

\* The processFile invocations that have started and not finished.
InFlight == { f \in FileIds : task[f] \in {"traversing", "saving"} }

\* p-limit without its limit.
AlwaysFreeSlot == TRUE

\* p-limit runs a queued function when activeCount < concurrency; the loop
\* awaits each file before it takes the next.
HasFreeSlot ==
    IF scheduler = "pLimit" THEN Cardinality(Active) < concurrencyLimit
    ELSE Active = {}

\* The queue of p-limit and the loop both take the files in list order.
IsNextQueued(f) ==
    /\ task[f] = "queued"
    /\ \A g \in FileIds : g < f => task[g] # "queued"

\* A synchronous section that gives the thread back while it is running.
YieldsThread(f) == thread' = 0

\* JavaScript runs a task to its next await before any other task runs.
TakesThread(f) == thread' = f

\* The run after console.error without process.exit(1).
ContinuesAfterError == exitCode' = exitCode

\* process.exit(1)
ProcessExit == exitCode' = 1

\* Promise.race in the place of Promise.all: one settled task is enough.
AnySettled == \E f \in FileIds : task[f] = "logged"

\* Promise.all resolves, or the loop ends, when every task has logged.
AllSettled == \A f \in FileIds : task[f] = "logged"

InitRun ==
    /\ NoCommandLine
    /\ NoUtils
    /\ options = defaultOptions
    /\ input = <<>>
    /\ enclosing = <<>>
    /\ Loaded
    /\ allFiles \in UNION { [1..n -> FileKinds] : n \in 0..MaxFiles }
    /\ scheduler \in {"pLimit", "forOf"}
    /\ concurrencyLimit \in
          IF scheduler = "pLimit" THEN (1..MaxLimit) \cup {DefaultConcurrency}
          ELSE {1}
    /\ task = [f \in 1..Len(allFiles) |-> "queued"]
    /\ thread = 0
    /\ processedFiles = 0
    /\ info = <<>>
    /\ reported = <<>>
    /\ exitCode = NotExited
    /\ saved = {}
    /\ passes = [f \in 1..Len(allFiles) |-> 0]

\* The task of file f starts: processFile is called and runs
\* addSourceFileAtPath and the traversal without giving up the thread.
StartTask(f) ==
    /\ exitCode = NotExited
    /\ thread = 0
    /\ IsNextQueued(f)
    /\ HasFreeSlot
    /\ task' = [task EXCEPT ![f] = "traversing"]
    /\ passes' = [passes EXCEPT ![f] = @ + 1]
    /\ TakesThread(f)
    /\ UNCHANGED <<allFiles, scheduler, concurrencyLimit, processedFiles,
                   info, reported, exitCode, saved>>
    /\ UNCHANGED <<fileVars, toolVars, utilVars>>

\* The synchronous part of processFile ends: it threw, it returned "No
\* changes made", or it called sourceFile.save() and awaits it.
EndTraversal(f) ==
    /\ exitCode = NotExited
    /\ task[f] = "traversing"
    /\ thread = f
    /\ task' = [task EXCEPT ![f] =
                  CASE allFiles[f] = "unreadable" -> "rejected"
                    [] allFiles[f] = "unchanged" -> "returned"
                    [] OTHER -> "saving"]
    /\ thread' = 0
    /\ UNCHANGED <<allFiles, scheduler, concurrencyLimit, processedFiles,
                   info, reported, exitCode, saved, passes>>
    /\ UNCHANGED <<fileVars, toolVars, utilVars>>

\* sourceFile.save() of file f settles.
SaveDone(f) ==
    /\ exitCode = NotExited
    /\ thread = 0
    /\ task[f] = "saving"
    /\ IF allFiles[f] = "unwritable"
       THEN task' = [task EXCEPT ![f] = "rejected"] /\ saved' = saved
       ELSE task' = [task EXCEPT ![f] = "returned"] /\ saved' = saved \cup {f}
    /\ UNCHANGED <<allFiles, scheduler, concurrencyLimit, thread,
                   processedFiles, info, reported, exitCode, passes>>
    /\ UNCHANGED <<fileVars, toolVars, utilVars>>

\* A status line that carries the position of the file in allFiles under
\* both schedulers.
PositionOfFile(f) == f

\* The counter of the status line of file f: processedFiles after its
\* increment (pLimit) or index + 1 (forOf).
Counter(f) == IF scheduler = "pLimit" THEN processedFiles + 1 ELSE f

\* await processFile(...) resumes with the message: the counter is
\* incremented and the status line logged in one synchronous stretch.
LogTask(f) ==
    /\ exitCode = NotExited
    /\ thread = 0
    /\ task[f] = "returned"
    /\ task' = [task EXCEPT ![f] = "logged"]
    /\ processedFiles' =
           IF scheduler = "pLimit" THEN processedFiles + 1 ELSE processedFiles
    /\ info' = Append(info, Counter(f))
    /\ UNCHANGED <<allFiles, scheduler, concurrencyLimit, thread, reported,
                   exitCode, saved, passes>>
    /\ UNCHANGED <<fileVars, toolVars, utilVars>>

\* await processFile(...) resumes with the error: the catch block.
FailTask(f) ==
    /\ exitCode = NotExited
    /\ thread = 0
    /\ task[f] = "rejected"
    /\ task' = [task EXCEPT ![f] = "failed"]
    /\ reported' = Append(reported, f)
    /\ ProcessExit
    /\ UNCHANGED <<allFiles, scheduler, concurrencyLimit, thread,
                   processedFiles, info, saved, passes>>
    /\ UNCHANGED <<fileVars, toolVars, utilVars>>

\* console.info('Processing complete.') and the normal end of the process.
Complete ==
    /\ exitCode = NotExited
    /\ thread = 0
    /\ AllSettled
    /\ exitCode' = 0
    /\ UNCHANGED <<allFiles, scheduler, concurrencyLimit, task, thread,
                   processedFiles, info, reported, saved, passes>>
    /\ UNCHANGED <<fileVars, toolVars, utilVars>>

NextRun ==
    \/ \E f \in FileIds : StartTask(f)
    \/ \E f \in FileIds : EndTraversal(f)
    \/ \E f \in FileIds : SaveDone(f)
    \/ \E f \in FileIds : LogTask(f)
    \/ \E f \in FileIds : FailTask(f)
    \/ Complete

SpecRun == InitRun /\ [][NextRun]_vars

\* The event loop of Node runs every continuation that is ready, and every
\* save() settles.
SpecRunFair == SpecRun /\ WF_vars(NextRun)

----------------------------------------------------------------------------
(* main: from the command line to the call of addFunctionReturnTypes *)

\* The boolean options declared on the program, with the key under which
\* commander stores each (the flag in camel case) and the field of Options
\* main fills from it.
BooleanOptions ==
    { [flag |-> "--shallow", key |-> "shallow", field |-> "shallow"],
      [flag |-> "--overwrite", key |-> "overwrite", field |-> "overwrite"],
      [flag |-> "--ignore-any", key |-> "ignoreAny", field |-> "ignoreAny"],
      [flag |-> "--ignore-unknown", key |-> "ignoreUnknown",
       field |-> "ignoreUnknown"],
      [flag |-> "--ignore-anonymous-objects", key |-> "ignoreAnonymousObjects",
       field |-> "ignoreAnonymousObjects"],
      [flag |-> "--ignore-expressions", key |-> "ignoreExpressions",
       field |-> "ignoreExpressions"],
      [flag |-> "--ignore-functions-without-type-parameters",
       key |-> "ignoreFunctionsWithoutTypeParameters",
       field |-> "ignoreFunctionsWithoutTypeParameters"],
      [flag |-> "--ignore-higher-order-functions",
       key |-> "ignoreHigherOrderFunctions",
       field |-> "ignoreHigherOrderFunctions"],
      [flag |-> "--ignore-typed-function-expressions",
       key |-> "ignoreTypedFunctionExpressions",
       field |-> "ignoreTypedFunctionExpressions"],
      [flag |-> "--ignore-iifes", key |-> "ignoreIifes", field |-> "ignoreIIFEs"],
      [flag |-> "--ignore-concise-arrow-function-expressions-starting-with-void",
       key |-> "ignoreConciseArrowFunctionExpressionsStartingWithVoid",
       field |-> "ignoreConciseArrowFunctionExpressionsStartingWithVoid"],
      [flag |-> "--ignore-anonymous-functions",
       key |-> "ignoreAnonymousFunctions",
       field |-> "ignoreAnonymousFunctions"] }

\* The options that take a comma-separated value.
ListOptions ==
    { [flag |-> "--ignore-files", key |-> "ignoreFiles", field |-> "ignoreFiles"],
      [flag |-> "--ignore-functions", key |-> "ignoreFunctions",
       field |-> "ignoreFunctions"] }

\* The values given to them on the command line.
ListValues == {"", "foo", "foo,bar", "**/*.test.ts,**/node_modules/**"}

\* A token of the command line: a positional argument (flag "") or an option
\* with its value (--flag=value; "" for a boolean option).
Tokens ==
    { [flag |-> "", value |-> v] : v \in {"src", "lib"} }
        \cup { [flag |-> b.flag, value |-> ""] : b \in BooleanOptions }
        \cup { [flag |-> l.flag, value |-> v] : l \in ListOptions, v \in ListValues }

\* program.parse(process.argv): the positional arguments in order, the keys
\* of the boolean options given, and for each list option given its value
\* (the last one when it is given twice).
Parse(tokens) ==
    LET at(f) == { i \in 1..Len(tokens) : tokens[i].flag = f }
        last(f) == CHOOSE i \in at(f) : \A j \in at(f) : j <= i
        positional == SelectSeq(tokens, LAMBDA t : t.flag = "")
    IN  [ args |-> [i \in 1..Len(positional) |-> positional[i].value],
          flags |-> { b.key : b \in { o \in BooleanOptions : at(o.flag) # {} } },
          values |-> [ k \in { l.key : l \in { o \in ListOptions : at(o.flag) # {} } }
                         |-> tokens[last((CHOOSE l \in ListOptions : l.key = k).flag)].value ] ]

\* String.prototype.split with a separator of one character.
RECURSIVE Split(_, _)
Split(s, sep) ==
    LET hits == { i \in 1..Len(s) : SubSeq(s, i, i) = sep }
    IN  IF hits = {} THEN <<s>>
        ELSE LET first == CHOOSE i \in hits : \A j \in hits : i <= j
             IN  <<SubSeq(s, 1, first - 1)>>
                     \o Split(SubSeq(s, first + 1, Len(s)), sep)

\* The path, shallow and list fields of defaultOptions.
DefaultPath == "."
DefaultShallow == FALSE
DefaultList == <<>>

\* The default of a boolean field of Options.
DefaultOf(field) ==
    IF field = "shallow" THEN DefaultShallow ELSE defaultOptions[field]

\* A main that passes the defaults whatever the command line says.
CoalesceToDefault(opts, key, default) == default

\* options.key ?? default, for a boolean option: commander leaves the key of
\* an option that was not given undefined.
Coalesce(opts, key, default) ==
    IF key \in opts.flags THEN TRUE ELSE default

\* options.key ? options.key.split(',') : default, for a list option: the
\* empty string is falsy.
SplitList(opts, key) ==
    IF key \in DOMAIN opts.values /\ opts.values[key] # ""
    THEN Split(opts.values[key], ",")
    ELSE DefaultList

\* The Options record main builds from the parsed command line.
MainOptions(program) ==
    [ field \in {"path"} \cup { o.field : o \in BooleanOptions \cup ListOptions }
        |-> IF field = "path"
            THEN IF Len(program.args) > 0 /\ program.args[1] # ""
                 THEN program.args[1] ELSE DefaultPath
            ELSE IF field \in { l.field : l \in ListOptions }
                 THEN SplitList(program,
                                (CHOOSE l \in ListOptions : l.field = field).key)
            ELSE Coalesce(program,
                          (CHOOSE b \in BooleanOptions : b.field = field).key,
                          DefaultOf(field)) ]

\* The engine is not driven: main only calls it.
NoFile ==
    /\ options = defaultOptions
    /\ input = <<>>
    /\ enclosing = <<>>
    /\ Loaded

InitMain ==
    /\ NoRun
    /\ NoUtils
    /\ NoFile
    /\ argv \in UNION { [1..k -> Tokens] : k \in 0..MaxArgs }
    /\ calls = <<>>

\* main runs: it parses process.argv, builds the Options record and awaits
\* addFunctionReturnTypes.
Main ==
    /\ calls = <<>>
    /\ calls' = Append(calls, MainOptions(Parse(argv)))
    /\ UNCHANGED <<argv, fileVars, runVars, utilVars>>

NextMain == Main

SpecMain == InitMain /\ [][NextMain]_vars

----------------------------------------------------------------------------
(* getDependencies: the package names of the manifests *)

PackageNames == {"react", "lodash", "typescript"}

\* What fs.readFile and JSON.parse give for a path: the read fails
\* ("unreadable"), the text is not JSON ("invalid"), the text is the JSON
\* null ("null"), or it is an object with the keys of its three dependency
\* fields in the order Object.keys lists them.
Manifest(kind, deps, dev, peer) ==
    [ kind |-> kind, dependencies |-> deps, devDependencies |-> dev,
      peerDependencies |-> peer ]

Manifests ==
    { Manifest("object", deps, dev, peer) :
        deps \in {<<>>, <<"react">>, <<"react", "lodash">>},
        dev \in {<<>>, <<"typescript">>},
        peer \in {<<>>, <<"react">>, <<"lodash">>} }
      \cup { Manifest(kind, <<>>, <<>>, <<>>) :
               kind \in {"unreadable", "invalid", "null"} }

\* An array in place of the Set: every name is appended.
Push(set, dep) == Append(set, dep)

\* Set.prototype.add on a Set kept in insertion order.
SetAdd(set, dep) ==
    IF \E i \in 1..Len(set) : set[i] = dep THEN set ELSE Append(set, dep)

RECURSIVE AddAll(_, _)
AddAll(set, deps) ==
    IF deps = <<>> THEN set ELSE AddAll(SetAdd(set, Head(deps)), Tail(deps))

\* The keys of { ...dependencies, ...devDependencies, ...peerDependencies }.
AllDeps(m) ==
    AddAll(<<>>, m.dependencies \o m.devDependencies \o m.peerDependencies)

\* The try block throws: readFile rejects, JSON.parse throws, or the
\* property access on null throws.
Throws(m) == m.kind # "object"

InitDependencies ==
    /\ NoCommandLine
    /\ NoRun
    /\ NoFile
    /\ NoSearch
    /\ utilPc = "reading"
    /\ packageJsonPaths \in UNION { [1..k -> Manifests] : k \in 0..MaxManifests }
    /\ manifest = 0
    /\ dependencies = <<>>
    /\ warnings = <<>>
    /\ finalDeps = <<>>

\* One pass of the for-of loop over packageJsonPaths.
ReadManifest ==
    /\ utilPc = "reading"
    /\ manifest < Len(packageJsonPaths)
    /\ manifest' = manifest + 1
    /\ LET m == packageJsonPaths[manifest + 1]
       IN  IF Throws(m)
           THEN /\ warnings' = Append(warnings, manifest + 1)
                /\ UNCHANGED dependencies
           ELSE /\ dependencies' = AddAll(dependencies, AllDeps(m))
                /\ UNCHANGED warnings
    /\ UNCHANGED <<utilPc, packageJsonPaths, finalDeps, startPath, cwd,
                   gitEntries, currentPath, rootPath>>
    /\ UNCHANGED <<fileVars, runVars, toolVars>>

\* The loop is over: Array.from(dependencies) is returned.
ReturnDependencies ==
    /\ utilPc = "reading"
    /\ manifest >= Len(packageJsonPaths)
    /\ finalDeps' = dependencies
    /\ utilPc' = "returned"
    /\ UNCHANGED <<packageJsonPaths, manifest, dependencies, warnings,
                   startPath, cwd, gitEntries, currentPath, rootPath>>
    /\ UNCHANGED <<fileVars, runVars, toolVars>>

NextDependencies == ReadManifest \/ ReturnDependencies

SpecDependencies == InitDependencies /\ [][NextDependencies]_vars

----------------------------------------------------------------------------
(* findRepoRoot: the upward search for .git *)

\* A directory is the sequence of its segments below the file system root
\* (<<>> is the root); a path as given is absolute or relative to cwd.
DirNames == {"packages", "a"}

Dirs(depth) == UNION { [1..k -> DirNames] : k \in 0..depth }

Path(absolute, segments) == [absolute |-> absolute, segments |-> segments]

\* path.resolve(startPath)
Resolve(p) == IF p.absolute THEN p.segments ELSE cwd \o p.segments

\* path.dirname: the root is its own parent.
Dirname(dir) == IF dir = <<>> THEN <<>> ELSE SubSeq(dir, 1, Len(dir) - 1)

\* fs.access(path.join(currentPath, '.git')) resolves.
HasGit(dir) == dir \in gitEntries

\* A search without the test for the root directory.
NeverAtRoot(dir) == FALSE

\* parentPath === currentPath
AtRoot(dir) == Dirname(dir) = dir

InitRoot ==
    /\ NoCommandLine
    /\ NoRun
    /\ NoFile
    /\ NoManifests
    /\ utilPc = "called"
    /\ startPath \in { Path(TRUE, segs) : segs \in Dirs(MaxDepth) }
                       \cup { Path(FALSE, segs) : segs \in Dirs(MaxDepth - 1) }
    /\ cwd \in Dirs(1)
    /\ gitEntries \in { g \in SUBSET Dirs(MaxDepth) : Cardinality(g) <= 2 }
    /\ currentPath = <<>>
    /\ rootPath = Path(TRUE, <<>>)

\* findRepoRoot calls searchForGitFileRecursive on the resolved start path.
StartSearch ==
    /\ utilPc = "called"
    /\ currentPath' = Resolve(startPath)
    /\ utilPc' = "searching"
    /\ UNCHANGED <<packageJsonPaths, manifest, dependencies, warnings, finalDeps,
                   startPath, cwd, gitEntries, rootPath>>
    /\ UNCHANGED <<fileVars, runVars, toolVars>>

\* fs.access resolves: the search returns currentPath, and findRepoRoot
\* returns it.
Found ==
    /\ utilPc = "searching"
    /\ HasGit(currentPath)
    /\ rootPath' = Path(TRUE, currentPath)
    /\ utilPc' = "returned"
    /\ UNCHANGED <<packageJsonPaths, manifest, dependencies, warnings, finalDeps,
                   startPath, cwd, gitEntries, currentPath>>
    /\ UNCHANGED <<fileVars, runVars, toolVars>>

\* fs.access rejects below the root: the search goes on in the parent.
Ascend ==
    /\ utilPc = "searching"
    /\ ~HasGit(currentPath)
    /\ ~AtRoot(currentPath)
    /\ currentPath' = Dirname(currentPath)
    /\ UNCHANGED <<utilPc, packageJsonPaths, manifest, dependencies, warnings,
                   finalDeps, startPath, cwd, gitEntries, rootPath>>
    /\ UNCHANGED <<fileVars, runVars, toolVars>>

\* fs.access rejects at the root: the search returns null, and findRepoRoot
\* returns the start path as it was given.
NotFound ==
    /\ utilPc = "searching"
    /\ ~HasGit(currentPath)
    /\ AtRoot(currentPath)
    /\ rootPath' = startPath
    /\ utilPc' = "returned"
    /\ UNCHANGED <<packageJsonPaths, manifest, dependencies, warnings, finalDeps,
                   startPath, cwd, gitEntries, currentPath>>
    /\ UNCHANGED <<fileVars, runVars, toolVars>>

NextRoot == StartSearch \/ Found \/ Ascend \/ NotFound

SpecRoot == InitRoot /\ [][NextRoot]_vars

\* Every fs.access settles and the continuation of its await runs.
SpecRootFair == SpecRoot /\ WF_vars(NextRoot)

----------------------------------------------------------------------------
(* Properties *)

Nodes == 1..Len(input)

Traversed == pc # "ready"

\* setReturnType was called with a type for node i in the current run.
WasAnnotated(i) == outcomes[i] \in {"parameter", "inferred"}

\* C1: a class constructor is never annotated, whatever the options: its
\* annotation in the tree and on disk stays what it was in the input, and a
\* file whose nodes are all constructors is never saved.
C1_ConstructorImmunity ==
    /\ \A i \in Nodes :
          Node(i).kind = "Constructor" =>
              /\ tree[i] = Node(i).returnTypeNode
              /\ disk[i] = Node(i).returnTypeNode
              /\ ~WasAnnotated(i)
    /\ (\A i \in Nodes : Node(i).kind = "Constructor") =>
          pc # "saving" /\ writes = 0

\* A run with overwrite has finished on a file that holds a constructor and
\* a function that was annotated and saved.
C1_Witness ==
    /\ pc = "done"
    /\ options.overwrite
    /\ writes = 1
    /\ \E i \in Nodes : Node(i).kind = "Constructor" /\ outcomes[i] = "notFunction"

\* C2: with overwrite off, a node that carries a return-type annotation is
\* neither changed nor resolved again, and a file whose function-like nodes
\* are all annotated is the same on disk after the run as before it.
C2_AnnotatedNodesKept ==
    ~options.overwrite =>
        /\ \A i \in Nodes :
              before[i] # NoType =>
                  /\ tree[i] = before[i]
                  /\ disk[i] = before[i]
                  /\ outcomes[i] \notin Resolved \cup {"parameter"}
        /\ (\A i \in Nodes : IsFunctionLike(Node(i)) => before[i] # NoType) =>
              disk = before /\ writes = 0 /\ pc # "saving"

\* A run without overwrite has finished on a file whose functions are all
\* annotated, one of them with a type the checker would not infer.
C2_Witness ==
    /\ pc = "done"
    /\ ~options.overwrite
    /\ Len(input) > 0
    /\ \A i \in Nodes : IsFunctionLike(Node(i)) /\ before[i] # NoType
    /\ \E i \in Nodes : before[i] # Node(i).inferred.typeText
    /\ message = NoChangesMade

\* C3: the file is saved exactly when the traversal annotated a node: the
\* flag is set iff some node was annotated, save is called iff the flag is
\* set, and a run that annotated nothing writes nothing and reports "No
\* changes made".
C3_SaveIffModified ==
    /\ writes <= 1
    /\ Traversed =>
          /\ modified <=> \E i \in Nodes : WasAnnotated(i)
          /\ pc = "saving" => modified
          /\ pc = "done" =>
                /\ writes = 1 <=> modified
                /\ message = NoChangesMade <=> ~modified
                /\ message = ProcessedAndSaved <=> modified
                /\ ~modified => disk = before
    /\ ~Traversed => writes = 0

\* A run has finished in which functions were looked at, one got as far as
\* the type checker, none was annotated and nothing was written.
C3_Witness ==
    /\ pc = "done"
    /\ ~modified
    /\ writes = 0
    /\ message = NoChangesMade
    /\ \E i \in Nodes : outcomes[i] \in ShapeExclusions

\* C4: running the tool a second time on the output of the first run, with
\* the same options, writes nothing and leaves the file as the first run
\* left it.
C4_Idempotence ==
    run = 2 => pc # "saving" /\ writes = 0 /\ disk = before

\* The decision for node i was Skip because an option-gated filter or a shape
\* exclusion fired.
Excluded(i) == outcomes[i] \in FilterExclusions \cup ShapeExclusions

\* C5: a node excluded by an inclusion filter or by a shape exclusion has the
\* same text in the file after processFile as before, the return-type
\* annotation it had included, whatever the options.
C5_ExcludedNodeUntouched ==
    \A i \in Nodes : Excluded(i) => disk[i] = before[i]

\* The name of the identifier returned by the only statement of the body
\* (or that is the concise body), "" when the body has another form.
ReturnedIdentifier(n) ==
    IF n.body.kind = "Block"
    THEN IF /\ Len(n.body.statements) = 1
            /\ n.body.statements[1].kind = "ReturnStatement"
            /\ n.body.statements[1].expression.kind = "Identifier"
            /\ n.body.statements[1].returns = <<>>
         THEN n.body.statements[1].expression.text
         ELSE ""
    ELSE IF n.body.kind = "Identifier" THEN n.body.text ELSE ""

\* Parameter k of n is the parameter the name denotes and has a declared type.
IsTypedParameterNamed(n, k, name) ==
    /\ n.parameters[k].name = name
    /\ n.parameters[k].typeNode # NoType
    /\ \A j \in 1..(k - 1) : n.parameters[j].name # name

\* Node i passed every filter of the chain in the current run.
ReachedResolution(i) == outcomes[i] \in Resolved \cup {"parameter"}

\* C6: when a node that reaches the return-type resolution returns a bare
\* identifier naming one of its own parameters, and the parameter has a
\* declared type, the annotation written is that declared type text
\* verbatim, the type checker is not asked, and the file is marked modified.
C6_ParameterPassthrough ==
    Traversed =>
        \A i \in Nodes :
            (ReachedResolution(i) /\ ReturnedIdentifier(Node(i)) # "") =>
                \A k \in DOMAIN Node(i).parameters :
                    IsTypedParameterNamed(Node(i), k, ReturnedIdentifier(Node(i))) =>
                        /\ tree[i] = Node(i).parameters[k].typeNode
                        /\ outcomes[i] = "parameter"
                        /\ modified

\* A run has finished that annotated a function returning its parameter with
\* the declared type of the parameter, which is not the text the type
\* checker renders for the function, and saved the file.
C6_Witness ==
    /\ pc = "done"
    /\ writes = 1
    /\ \E i \in Nodes :
          /\ ReturnedIdentifier(Node(i)) # ""
          /\ outcomes[i] = "parameter"
          /\ tree[i] # Node(i).inferred.typeText
          /\ disk[i] = Node(i).parameters[1].typeNode
          /\ before[i] = NoType

\* The type the resolution arrived at for node i: the declared type of the
\* returned parameter when the shortcut was taken, else the inferred type.
ResolvedTypeText(i) ==
    IF outcomes[i] = "parameter" THEN ParamTypeText(Node(i))
    ELSE Node(i).inferred.typeText

AnyTypes == {"any", "Promise<any>"}

\* C7: with ignoreAny set, no node whose return type is any or Promise<any>
\* is annotated: after the traversal no node has gained the annotation any
\* or Promise<any>.
C7_AnyNeverAnnotated ==
    (options.ignoreAny /\ Traversed) =>
        \A i \in Nodes :
            /\ tree[i] \in AnyTypes => tree[i] = before[i]
            /\ (ReachedResolution(i) /\ ResolvedTypeText(i) \in AnyTypes) =>
                  ~WasAnnotated(i)

StartsWith(s, prefix) ==
    Len(s) >= Len(prefix) /\ SubSeq(s, 1, Len(prefix)) = prefix

EndsWith(s, suffix) ==
    Len(s) >= Len(suffix) /\ SubSeq(s, Len(s) - Len(suffix) + 1, Len(s)) = suffix

\* t is an inline object-literal type, or one wrapped once in Promise<...>,
\* an array T[] or Record<K, V>.
IsAnonymousObjectType(t) ==
    \/ StartsWith(t, "{") /\ EndsWith(t, "}")
    \/ StartsWith(t, "Promise<{") /\ EndsWith(t, "}>")
    \/ StartsWith(t, "{") /\ EndsWith(t, "}[]")
    \/ StartsWith(t, "Record<") /\ Includes(t, ", {") /\ EndsWith(t, "}>")

\* C8: a node whose resolved type is an inline object-literal type, bare or
\* wrapped once in Promise, an array or Record, is skipped when
\* ignoreAnonymousObjects is set, and is annotated with the full rendered
\* type when it is not set.
C8_AnonymousObjects ==
    Traversed =>
        \A i \in Nodes :
            (ReachedResolution(i) /\ IsAnonymousObjectType(ResolvedTypeText(i))) =>
                IF options.ignoreAnonymousObjects
                THEN ~WasAnnotated(i)
                ELSE outcomes[i] \notin {"ignoreAny", "ignoreUnknown"} =>
                         WasAnnotated(i) /\ tree[i] = ResolvedTypeText(i)

\* The body of n is a block whose single statement returns a function
\* expression or an arrow function.
ReturnsFunction(n) ==
    /\ n.body.kind = "Block"
    /\ Len(n.body.statements) = 1
    /\ n.body.statements[1].kind = "ReturnStatement"
    /\ n.body.statements[1].expression.kind
           \in {"FunctionExpression", "ArrowFunction"}

\* C9: with ignoreHigherOrderFunctions set, the higher-order filter excludes
\* a node exactly when its body is a block whose single statement returns a
\* function expression or arrow function; nodes with any other body go on
\* to be annotated.
C9_HigherOrderExact ==
    (options.ignoreHigherOrderFunctions /\ Traversed) =>
        \A i \in Nodes :
            /\ outcomes[i] = "ignoreHigherOrderFunctions" => ReturnsFunction(Node(i))
            /\ (ReturnsFunction(Node(i)) /\ IsFunctionLike(Node(i))) =>
                  ~WasAnnotated(i)

\* Node i is a function or method declaration without a body.
IsSignature(i) ==
    /\ Node(i).kind \in {"FunctionDeclaration", "MethodDeclaration"}
    /\ Node(i).body.kind = "none"

\* C10: an overload signature (a function or method declaration without a
\* body) is never annotated and keeps its text under every option set.
C10_SignaturesUntouched ==
    \A i \in Nodes :
        IsSignature(i) =>
            /\ ~WasAnnotated(i)
            /\ tree[i] = Node(i).returnTypeNode
            /\ disk[i] = Node(i).returnTypeNode

----------------------------------------------------------------------------
(* Errors *)

\* The callback of node i ended in its catch block.
Threw(i) == outcomes[i] = "error"

C12_FileErrorsFatal ==
    [][ /\ \A f \in FileIds :
             task'[f] = "failed" =>
               /\ exitCode' = 1
               /\ \E k \in 1..Len(reported') : reported'[k] = f
        /\ exitCode = 1 => task' = task /\ passes' = passes
        /\ saved \subseteq saved' ]_vars

\* The run ended with status 1 on a failed file, after one file was saved
\* and with one file never started.
C12_Witness ==
    /\ exitCode = 1
    /\ \E f \in FileIds, g \in FileIds, h \in FileIds :
          /\ task[f] = "failed"
          /\ reported = <<f>>
          /\ g \in saved
          /\ task[h] = "queued"
          /\ passes[h] = 0

----------------------------------------------------------------------------
(* Scheduling *)

\* C13: under p-limit the number of files whose processFile call has
\* started and not finished never exceeds concurrencyLimit, which is the
\* number given on the command line or 10.
C13_ConcurrencyCap ==
    scheduler = "pLimit" =>
        /\ concurrencyLimit \in (1..MaxLimit) \cup {DefaultConcurrency}
        /\ Cardinality(InFlight) <= concurrencyLimit

\* The limit is reached while a file is waiting in the queue.
C13_Witness ==
    /\ scheduler = "pLimit"
    /\ concurrencyLimit > 1
    /\ Cardinality(InFlight) = concurrencyLimit
    /\ \E f \in FileIds : task[f] = "queued"

NoFileFails == \A f \in FileIds : allFiles[f] \in {"changed", "unchanged"}

\* C14: no file is traversed twice; completion is reported only when every
\* file was processed once and has logged its status line; and a run in
\* which no file fails reports completion in the end.
C14_EveryFileOnce ==
    /\ [](\A f \in FileIds : passes[f] <= 1)
    /\ [](exitCode = 0 =>
            /\ \A f \in FileIds : task[f] = "logged" /\ passes[f] = 1
            /\ Len(info) = Len(allFiles))
    /\ (NoFileFails ~> exitCode = 0)

\* A run over several files, one of them saved, reported completion.
C14_Witness ==
    /\ exitCode = 0
    /\ NoFileFails
    /\ Len(allFiles) > 1
    /\ saved # {}
    /\ \E f \in FileIds : allFiles[f] = "unchanged"

Traversing == { f \in FileIds : task[f] = "traversing" }

\* C15: under p-limit at most one task is inside the traversal of
\* processFile at a time, that task holds the thread, and the tree of a
\* file is traversed once by the task of that file and never again.
C15_OnePassAtATime ==
    scheduler = "pLimit" =>
        /\ Cardinality(Traversing) <= 1
        /\ \A f \in Traversing : thread = f
        /\ \A f \in FileIds :
              passes[f] = IF task[f] = "queued" THEN 0 ELSE 1

\* One task traverses its file while the task of another file awaits its
\* save.
C15_Witness ==
    /\ scheduler = "pLimit"
    /\ \E f \in FileIds, g \in FileIds :
          /\ task[f] = "traversing"
          /\ task[g] = "saving"

----------------------------------------------------------------------------
(* Nested functions *)

IsNested(j) == enclosing[j] # 0

\* C16: a function nested in another function, at any depth, is evaluated
\* by the callback with the options of the run, and ends as it would in a
\* file of its own, whether the functions around it were annotated or
\* left alone.
C16_NestedEvaluatedAlone ==
    Traversed =>
        \A j \in Nodes :
            IsNested(j) =>
                LET alone == VisitNode(Node(j), before[j], options)
                IN  /\ outcomes[j] # ""
                    /\ outcomes[j] = alone.outcome
                    /\ tree[j] = alone.returnType

\* A function two levels down was annotated inside functions of which the
\* outermost kept its declared return type.
C16_Witness ==
    /\ Traversed
    /\ \E j \in Nodes :
          /\ IsNested(j)
          /\ IsNested(enclosing[j])
          /\ WasAnnotated(j)
          /\ outcomes[enclosing[enclosing[j]]] = "hasReturnType"

----------------------------------------------------------------------------
(* The filters of the chain *)

\* The callback of node i went past the kind and return-type checks.
ReachedFilters(i) ==
    outcomes[i] \notin {"", "notFunction", "constructor", "hasReturnType"}

\* Node i can be annotated in this run: a function without a return type,
\* or any function under overwrite.
Open(i) == IsFunctionLike(Node(i)) /\ (options.overwrite \/ before[i] = NoType)

\* The option name is the only ignore option switched on.
OnlyIgnores(name) ==
    options \in {OptionsOf({name}), OptionsOf({name, "overwrite"})}

IsDeclaration(n) == n.kind \in {"FunctionDeclaration", "MethodDeclaration"}

HasIgnoredName(n) == IsDeclaration(n) /\ n.name \in options.ignoreFunctions

\* C17: the name filter excludes exactly the function and method
\* declarations whose name is in ignoreFunctions; a function expression or
\* arrow function is never excluded by name, whatever it is bound to; and
\* with no other ignore option set, every other function is annotated.
C17_NameExclusion ==
    Traversed =>
        \A i \in Nodes :
            /\ outcomes[i] = "ignoreFunctions" <=>
                  ReachedFilters(i) /\ HasIgnoredName(Node(i))
            /\ IsExpressionForm(Node(i)) => outcomes[i] # "ignoreFunctions"
            /\ (OnlyIgnores("ignoreFunctions") /\ Open(i)
                   /\ ~HasIgnoredName(Node(i))) => WasAnnotated(i)

\* A listed declaration and a listed method were left alone, while another
\* declaration and an arrow function bound to a listed name were annotated.
C17_Witness ==
    /\ Traversed
    /\ \E i \in Nodes, j \in Nodes, k \in Nodes, m \in Nodes :
          /\ Node(i).kind = "FunctionDeclaration" /\ outcomes[i] = "ignoreFunctions"
          /\ Node(m).kind = "MethodDeclaration" /\ outcomes[m] = "ignoreFunctions"
          /\ Node(j).kind = "FunctionDeclaration" /\ WasAnnotated(j)
          /\ Node(k).kind = "ArrowFunction"
          /\ Node(k).parentName \in options.ignoreFunctions
          /\ WasAnnotated(k)

\* The node is the callee of a call, directly or through one parenthesis.
IsCallee(n) ==
    \/ n.parentKind = "CallExpression" /\ n.parentCallsNode
    \/ n.parentKind = "ParenthesizedExpression" /\ n.grandParentCallsParent

\* C18: with ignoreIIFEs set, the IIFE filter excludes only callees, every
\* function that is the callee of a call (directly or through one layer of
\* parentheses) stays without annotation, and with no other ignore option
\* set every other function, a function passed as an argument included,
\* is annotated.
C18_IIFEExclusion ==
    (Traversed /\ options.ignoreIIFEs) =>
        \A i \in Nodes :
            /\ outcomes[i] = "ignoreIIFEs" =>
                  IsCallee(Node(i)) /\ IsExpressionForm(Node(i))
            /\ (IsCallee(Node(i)) /\ IsFunctionLike(Node(i))) => ~WasAnnotated(i)
            /\ OnlyIgnores("ignoreIIFEs") =>
                  /\ (ReachedFilters(i) /\ IsCallee(Node(i))) =>
                        outcomes[i] = "ignoreIIFEs"
                  /\ (Open(i) /\ ~IsCallee(Node(i))) => WasAnnotated(i)

\* An IIFE was left alone while a function passed as an argument was
\* annotated.
C18_Witness ==
    /\ Traversed
    /\ \E i \in Nodes, j \in Nodes :
          /\ outcomes[i] = "ignoreIIFEs"
          /\ Node(i).parentKind = "ParenthesizedExpression"
          /\ Node(j).parentKind = "CallExpression"
          /\ ~Node(j).parentCallsNode
          /\ WasAnnotated(j)

\* The parents that give an arrow function a name.
IsBound(n) ==
    \/ n.parentKind = "VariableDeclaration" /\ n.parentName # ""
    \/ n.parentKind \in {"PropertyDeclaration", "PropertyAssignment"}
    \/ n.parentKind = "BinaryExpression" /\ n.parentOperator = "="

IsAnonymous(n) ==
    \/ n.kind = "FunctionExpression" /\ n.name = ""
    \/ n.kind = "ArrowFunction" /\ ~IsBound(n)

\* C19: with ignoreAnonymousFunctions set, a function expression without a
\* name and an arrow function whose parent gives it no name stay without
\* annotation; the filter excludes nothing else, so never a function or
\* method declaration; and with no other ignore option set every other
\* function is annotated.
C19_AnonymousExclusion ==
    (Traversed /\ options.ignoreAnonymousFunctions) =>
        \A i \in Nodes :
            /\ IsAnonymous(Node(i)) => ~WasAnnotated(i)
            /\ outcomes[i] = "ignoreAnonymousFunctions" => IsAnonymous(Node(i))
            /\ IsDeclaration(Node(i)) => outcomes[i] # "ignoreAnonymousFunctions"
            /\ OnlyIgnores("ignoreAnonymousFunctions") =>
                  /\ (ReachedFilters(i) /\ IsAnonymous(Node(i))) =>
                        outcomes[i] = "ignoreAnonymousFunctions"
                  /\ (Open(i) /\ ~IsAnonymous(Node(i))) => WasAnnotated(i)

\* The file of the test: the unnamed function expression and the arrow
\* function in parentheses were left alone, the declaration and the arrow
\* functions bound to a variable, a class property, an object property and
\* an assignment were annotated.
C19_Witness ==
    /\ Traversed
    /\ options.ignoreAnonymousFunctions
    /\ \E i \in Nodes, j \in Nodes :
          /\ Node(i).kind = "FunctionExpression"
          /\ outcomes[i] = "ignoreAnonymousFunctions"
          /\ Node(j).kind = "ArrowFunction"
          /\ outcomes[j] = "ignoreAnonymousFunctions"
    /\ \A kind \in {"VariableDeclaration", "PropertyDeclaration",
                     "PropertyAssignment", "BinaryExpression"} :
          \E k \in Nodes :
              /\ Node(k).kind = "ArrowFunction"
              /\ Node(k).parentKind = kind
              /\ WasAnnotated(k)
    /\ \E d \in Nodes : Node(d).kind = "FunctionDeclaration" /\ WasAnnotated(d)

\* The filters whose option is switched on; the others return nothing
\* wherever they stand.
Enabled == { name \in IgnoreNames : \E k \in 1..Len(ChainOrder) :
                ChainOrder[k] = name /\ Gate(name, options) }

\* Every order in which the enabled filters can be evaluated.
Orders ==
    { p \in [1..Cardinality(Enabled) -> Enabled] :
        \A a \in DOMAIN p, b \in DOMAIN p : p[a] = p[b] => a = b }

\* The filters evaluated one after the other in the given order, up to the
\* first that returns: TRUE when one of them rejects the node.
RECURSIVE RejectedInOrder(_, _, _)
RejectedInOrder(order, n, o) ==
    IF order = <<>> THEN FALSE
    ELSE IF Fires(Head(order), n, o) THEN TRUE
    ELSE RejectedInOrder(Tail(order), n, o)

\* The filters whose test node i meets.
Firing(i) == { name \in Enabled : Fires(name, Node(i), options) }

\* C20: for a node that reaches the option-gated filters, evaluating the
\* filters in any order gives the verdict the callback gave: the node is
\* rejected by the chain in every order or in none.
C20_OrderIndependent ==
    Traversed =>
        \A i \in Nodes :
            ReachedFilters(i) =>
                \A p \in Orders :
                    RejectedInOrder(p, Node(i), options)
                        = (outcomes[i] \in FilterExclusions)

\* Three filters are on; the first in the order of the code lets the node
\* pass and the two others both reject it.
C20_Witness ==
    /\ Traversed
    /\ Cardinality(Enabled) = 3
    /\ \E i \in Nodes :
          /\ Cardinality(Firing(i)) = 2
          /\ outcomes[i] \in FilterExclusions
          /\ \E k \in 1..Len(ChainOrder) :
                /\ ChainOrder[k] \in Enabled \ Firing(i)
                /\ \A j \in 1..Len(ChainOrder) :
                      ChainOrder[j] \in Firing(i) => k < j

----------------------------------------------------------------------------
(* Namespaces *)

InNamespace(i) ==
    enclosing[i] # 0 /\ Node(enclosing[i]).kind = "ModuleDeclaration"

\* The same function declared at the top level of the file.
AtTopLevel(n) ==
    IF n.parentKind = "ModuleBlock" THEN [n EXCEPT !.parentKind = "SourceFile"]
    ELSE n

----------------------------------------------------------------------------
(* The defaults *)

\* The checker infers any for node i, a function with a body and without a
\* return type.
InfersAny(i) ==
    /\ IsFunctionLike(Node(i))
    /\ ~IsSignature(i)
    /\ before[i] = NoType
    /\ Node(i).inferred.text = "any"

\* C22: with every option at its default, a function whose inferred return
\* type is any is skipped (it gets no annotation), and a file of such
\* functions only is not written.
C22_DefaultSkipsAny ==
    (options = defaultOptions /\ Traversed) =>
        /\ \A i \in Nodes : InfersAny(i) => tree[i] = NoType /\ ~WasAnnotated(i)
        /\ (\A i \in Nodes : InfersAny(i)) => ~modified /\ disk = Annotations(input)

----------------------------------------------------------------------------
(* The command line *)

\* main has returned from its call of addFunctionReturnTypes.
Called == calls # <<>>

\* The last value given for the list option with this flag.
Given(flag) ==
    LET at == { i \in 1..Len(argv) : argv[i].flag = flag }
    IN  argv[CHOOSE i \in at : \A j \in at : j <= i].value

IsGiven(flag) == \E i \in 1..Len(argv) : argv[i].flag = flag

\* The path and the boolean fields of the record main passed on: the path is
\* the first positional argument or '.', and a boolean field is true exactly
\* when its flag is on the command line.
PassesPathAndFlags ==
    /\ Len(calls) = 1
    /\ DOMAIN calls[1] =
           { "path", "shallow", "ignoreFiles", "overwrite",
             "ignoreConciseArrowFunctionExpressionsStartingWithVoid",
             "ignoreExpressions", "ignoreFunctionsWithoutTypeParameters",
             "ignoreHigherOrderFunctions", "ignoreTypedFunctionExpressions",
             "ignoreIIFEs", "ignoreFunctions", "ignoreAnonymousObjects",
             "ignoreAny", "ignoreUnknown", "ignoreAnonymousFunctions" }
    /\ calls[1].path =
           IF IsGiven("")
           THEN argv[CHOOSE i \in 1..Len(argv) :
                        /\ argv[i].flag = ""
                        /\ \A j \in 1..(i - 1) : argv[j].flag # ""].value
           ELSE "."
    /\ calls[1].shallow = IsGiven("--shallow")
    /\ calls[1].overwrite = IsGiven("--overwrite")
    /\ calls[1].ignoreAny = IsGiven("--ignore-any")
    /\ calls[1].ignoreUnknown = IsGiven("--ignore-unknown")
    /\ calls[1].ignoreAnonymousObjects = IsGiven("--ignore-anonymous-objects")
    /\ calls[1].ignoreExpressions = IsGiven("--ignore-expressions")
    /\ calls[1].ignoreFunctionsWithoutTypeParameters =
           IsGiven("--ignore-functions-without-type-parameters")
    /\ calls[1].ignoreHigherOrderFunctions =
           IsGiven("--ignore-higher-order-functions")
    /\ calls[1].ignoreTypedFunctionExpressions =
           IsGiven("--ignore-typed-function-expressions")
    /\ calls[1].ignoreIIFEs = IsGiven("--ignore-iifes")
    /\ calls[1].ignoreConciseArrowFunctionExpressionsStartingWithVoid =
           IsGiven("--ignore-concise-arrow-function-expressions-starting-with-void")
    /\ calls[1].ignoreAnonymousFunctions = IsGiven("--ignore-anonymous-functions")

\* C23 as stated: main calls addFunctionReturnTypes exactly once, with the
\* path and the boolean fields as above and with ignoreFiles and
\* ignoreFunctions the comma-split values of their flags, the empty list
\* when the flag is absent.
C23_MainPassesOptions ==
    /\ Len(calls) <= 1
    /\ Called =>
          /\ PassesPathAndFlags
          /\ calls[1].ignoreFiles =
                 IF IsGiven("--ignore-files")
                 THEN Split(Given("--ignore-files"), ",") ELSE <<>>
          /\ calls[1].ignoreFunctions =
                 IF IsGiven("--ignore-functions")
                 THEN Split(Given("--ignore-functions"), ",") ELSE <<>>

\* The list a flag stands for: the empty list when the flag is absent or
\* its value is the empty string, the comma-split value otherwise.
ListOf(flag) ==
    IF IsGiven(flag) /\ Given(flag) # "" THEN Split(Given(flag), ",") ELSE <<>>

\* C23, amended: main calls addFunctionReturnTypes exactly once, with the
\* path and the boolean fields as above and with ignoreFiles and
\* ignoreFunctions the comma-split values of their flags, the empty list
\* when the flag is absent or given with an empty value.
C23_MainPassesOptionsAmended ==
    /\ Len(calls) <= 1
    /\ Called =>
          /\ PassesPathAndFlags
          /\ calls[1].ignoreFiles = ListOf("--ignore-files")
          /\ calls[1].ignoreFunctions = ListOf("--ignore-functions")

\* main was called with a boolean flag, a list of two names and a list flag
\* with an empty value, and passed the default path.
C23_Witness ==
    /\ Called
    /\ calls[1].path = "."
    /\ calls[1].ignoreIIFEs
    /\ ~calls[1].shallow
    /\ calls[1].ignoreFunctions = <<"foo", "bar">>
    /\ IsGiven("--ignore-files")
    /\ Given("--ignore-files") = ""
    /\ calls[1].ignoreFiles = <<>>

----------------------------------------------------------------------------
(* The manifests *)

Range(seq) == { seq[i] : i \in 1..Len(seq) }

\* The names a manifest that was read and parsed lists in its three fields.
KeysOf(m) ==
    IF m.kind = "object"
    THEN Range(m.dependencies) \cup Range(m.devDependencies)
             \cup Range(m.peerDependencies)
    ELSE {}

Unprocessable(m) == m.kind \in {"unreadable", "invalid"}

\* C24: getDependencies returns each package name at most once and exactly
\* the names the readable and parsable manifests list under dependencies,
\* devDependencies and peerDependencies; every manifest that cannot be read
\* or parsed is named in one warning, adds nothing, and the manifests after
\* it are processed all the same.
C24_DependenciesOfManifests ==
    /\ \A w \in Range(warnings) : KeysOf(packageJsonPaths[w]) = {}
    /\ utilPc = "returned" =>
          /\ \A i, j \in 1..Len(finalDeps) : finalDeps[i] = finalDeps[j] => i = j
          /\ Range(finalDeps) =
                 UNION { KeysOf(packageJsonPaths[k]) : k \in 1..Len(packageJsonPaths) }
          /\ \A k \in 1..Len(packageJsonPaths) :
                 Unprocessable(packageJsonPaths[k]) =>
                     Cardinality({ i \in 1..Len(warnings) : warnings[i] = k }) = 1
          /\ manifest = Len(packageJsonPaths)

\* The test with an invalid manifest, the other way round: the invalid
\* manifest came first, and the names of the one after it were returned,
\* react listed under two of its fields.
C24_Witness ==
    /\ utilPc = "returned"
    /\ Len(packageJsonPaths) = 2
    /\ packageJsonPaths[1].kind = "invalid"
    /\ packageJsonPaths[2] =
           Manifest("object", <<"react", "lodash">>, <<"typescript">>, <<"react">>)
    /\ warnings = <<1>>
    /\ Range(finalDeps) = {"react", "lodash", "typescript"}
    /\ Len(finalDeps) = 3

----------------------------------------------------------------------------
(* The repository root *)

\* The start directory and its ancestors up to the file system root.
SearchPath ==
    { SubSeq(Resolve(startPath), 1, k) : k \in 0..Len(Resolve(startPath)) }

\* The nearest of them that holds .git.
Nearest ==
    CHOOSE dir \in SearchPath \cap gitEntries :
        \A other \in SearchPath \cap gitEntries : Len(other) <= Len(dir)

ReturnsNearestRoot ==
    utilPc = "returned" =>
        IF SearchPath \cap gitEntries # {}
        THEN rootPath = Path(TRUE, Nearest)
        ELSE rootPath = startPath

\* C25: findRepoRoot returns the nearest directory, among the start path
\* and its ancestors, that holds a .git entry, and the start path as given
\* when none of them does; the search ends in every case.
C25_NearestRepoRoot ==
    /\ []ReturnsNearestRoot
    /\ (utilPc \in {"called", "searching"}) ~> (utilPc = "returned")

\* The search started two levels below a repository inside a repository and
\* returned the inner one.
C25_Witness ==
    /\ utilPc = "returned"
    /\ Len(Resolve(startPath)) = 2
    /\ rootPath = Path(TRUE, SubSeq(Resolve(startPath), 1, 1))
    /\ <<>> \in gitEntries

----------------------------------------------------------------------------
(* The reach of the parameter shortcut *)

\* The whole body of n is the return of one of its own typed parameters:
\* a block of the single statement "return <identifier>", or a concise body
\* that is the identifier.
IsSoleReturnOfParameter(n) ==
    /\ ~n.returnsLocal
    /\ ReturnedIdentifier(n) # ""
    /\ \E k \in DOMAIN n.parameters :
          IsTypedParameterNamed(n, k, ReturnedIdentifier(n))

\* C26: the shortcut fires only on a node whose whole body is the return of
\* its own typed parameter; a node whose only return statement lies in a
\* nested function, whose body has other statements, or whose returned
\* identifier is a local variable, is resolved by inference: if it is
\* annotated, then with the inferred type.
C26_ShortcutOnlyOnSoleReturn ==
    Traversed =>
        \A i \in Nodes :
            (ReachedResolution(i) /\ ~IsSoleReturnOfParameter(Node(i))) =>
                /\ outcomes[i] # "parameter"
                /\ WasAnnotated(i) => tree[i] = Node(i).inferred.typeText

IsAsyncOrGenerator(n) == n.modifiers \cap {"async", "generator"} # {}

\* C29: an async function or a generator function whose only return
\* statement returns one of its typed parameters is annotated with the
\* Promise or Generator type the checker infers for it, not with the
\* declared type of the parameter.
C29_AsyncAndGeneratorInferred ==
    Traversed =>
        \A i \in Nodes :
            ( /\ IsAsyncOrGenerator(Node(i))
              /\ IsSoleReturnOfParameter(Node(i))
              /\ WasAnnotated(i) ) =>
                tree[i] = Node(i).inferred.typeText

----------------------------------------------------------------------------
(* The any filter *)

\* The type is any, or any wrapped in Promise, an array or Record.
IsAnyShaped(t) ==
    \/ t \in {"any", "Promise<any>", "any[]", "Array<any>"}
    \/ StartsWith(t, "Record<") /\ EndsWith(t, ", any>")

\* C27: with ignoreAny set, the any filter excludes a node only if its
\* resolved type is any or any wrapped in Promise, an array or Record; a
\* node whose type text has the letters "any" inside another name is
\* annotated.
C27_AnyFilterExact ==
    (options.ignoreAny /\ Traversed) =>
        \A i \in Nodes :
            /\ outcomes[i] = "ignoreAny" => IsAnyShaped(Node(i).inferred.text)
            /\ ( /\ outcomes[i] \in ShapeExclusions \cup {"inferred"}
                 /\ ~IsAnyShaped(Node(i).inferred.text)
                 /\ OnlyIgnores("ignoreAny") ) => WasAnnotated(i)

----------------------------------------------------------------------------
(* Overwrite and the filters *)

\* C28: with overwrite set, a node that has a return type and is excluded
\* by one of the option-gated syntactic filters keeps that return type, in
\* the tree and on disk: the annotation is cleared only for a node that all
\* of those filters let pass.
C28_FilteredKeepsAnnotation ==
    (options.overwrite /\ Traversed) =>
        \A i \in Nodes :
            before[i] # NoType =>
                /\ outcomes[i] \in FilterExclusions =>
                       tree[i] = before[i] /\ disk[i] = before[i]
                /\ tree[i] # before[i] =>
                       outcomes[i] \notin FilterExclusions \cup {"hasReturnType"}

\* A function with a return type and a name on the ignore list was run with
\* overwrite, was excluded by the name filter and kept its return type.
C28_Witness ==
    /\ pc = "done"
    /\ options.overwrite
    /\ \E i \in Nodes :
          /\ input[i] = "shouldBeIgnoredTyped"
          /\ outcomes[i] = "ignoreFunctions"
          /\ before[i] = "number"
          /\ tree[i] = "number"
          /\ disk[i] = "number"

----------------------------------------------------------------------------
(* The status lines *)

\* C30: in a run in which no file fails, under every interleaving of the
\* file tasks the status lines logged so far carry the counters 1, 2, ...
\* in this order, each once, never more than the number of files found;
\* when the run completes the lines carry 1 to N and the last carries N.
C30_CountersInOrder ==
    NoFileFails =>
        /\ info = [k \in 1..Len(info) |-> k]
        /\ Len(info) = Cardinality({ f \in FileIds : task[f] = "logged" })
        /\ exitCode = 0 =>
              /\ Len(info) = Len(allFiles)
              /\ Len(allFiles) > 0 => info[Len(info)] = Len(allFiles)

\* Under p-limit with two slots the second and the third of three files
\* logged their lines, with the counters 1 and 2, while the first was still
\* being saved.
C30_Witness ==
    /\ scheduler = "pLimit"
    /\ NoFileFails
    /\ Len(allFiles) = 3
    /\ task[1] = "saving"
    /\ task[2] = "logged"
    /\ task[3] = "logged"
    /\ info = <<1, 2>>

====
